---- MODULE Spec2Model ----
(***************************************************************************)
(* A model of que-pasa's ingestion executor (src/src/highlevel.rs): the    *)
(* node's chain, the DB sink, the contract registry with its floors, the   *)
(* per-block persistence with its hash-chain check and reorg cleanup, and  *)
(* the parallel fetch pipeline of exec_parallel.                           *)
(***************************************************************************)
EXTENDS Integers, Sequences, FiniteSets, TLC

\* ------------------------------------------------------------------ bounds
MaxLevel == 3
MaxReorgs == 1
MaxCalls == 3
MaxList == 3
W == 1

Levels == 1..MaxLevel
Contracts == {"A"}
Workers == 1..W
\* Option<u32>::None
None == 0 - 1

VARIABLES
    \* the node
    chain,          \* level -> version of the block the node serves at that level
    nver,           \* number of reorgs the node's chain went through
    origin,         \* contract -> level of the block holding its origination
    head,           \* level of the node's head block
    \* the DB sink
    db,             \* the committed content of the common and contract tables
    \* the executor
    phase,          \* "setup", "ready", "par" (exec_parallel runs), "cont"
                    \* (exec_continuous runs), "done", "failed"
    cont,           \* the loop of exec_continuous: its position and what it read
    missing,        \* the loop of exec_missing_levels: its position and its passes
    hist,           \* the loop of exec_new_contracts_historically: its position
    derived,        \* the derived tables (_live, _ordered): whether a stored level was
                    \* rolled back since they were last repopulated
    contracts,      \* Executor.contracts: registered contract -> origination floor
    all_contracts,  \* Executor.all_contracts
    level_floor,    \* Executor.level_floor (shared with the levels selector)
    stack,          \* the nested exec_for_block calls of the consumer thread
    ret,            \* how the last top-level exec_for_block call ended
    \* the pipeline of exec_parallel
    selector,       \* the levels_selector thread of exec_levels
    levels_in,      \* the channel selector -> workers (height_send, height_recv)
    workers,        \* the fetch workers of ConcurrentBlockGetter
    blocks_out,     \* the channel workers -> consumer (block_send, block_recv)
    processed_levels,
    \* budgets and history
    budget,         \* what is left of the calls, failures and runs a behaviour may hold
    call,           \* the running (or last) top-level call: its block, flags, snapshots,
                    \* and the contracts its last transaction step registered
    below_floor,    \* the sends and the reprocessing fetches of a level below level_floor
    \* the schema builder
    type_ast,       \* the storage type (Ele) a contract's schema is built from
    built           \* what ASTBuilder::build_relational_ast returned for it

nodeVars == <<chain, nver, origin, head>>
modeVars == <<cont, missing, hist, derived>>
schemaVars == <<type_ast, built>>
execVars == <<contracts, all_contracts, level_floor>>
pipeVars == <<selector, levels_in, workers, processed_levels>>
vars == <<chain, nver, origin, head, db, phase, cont, missing, hist, derived, contracts, all_contracts, level_floor,
          stack, ret, selector, levels_in, workers, blocks_out, processed_levels,
          budget, call, below_floor, type_ast, built>>

\* ------------------------------------------------------------------ the node
GenesisHash == <<0, 0>>
HashOf(l, v) == <<l, v>>

\* NodeClient::level_json: the block the node serves at level l right now
level_json(l) ==
    [level |-> l,
     hash |-> HashOf(l, chain[l]),
     prev_hash |-> IF l = 1 THEN GenesisHash ELSE HashOf(l - 1, chain[l - 1])]

\* Block::has_contract_origination / Block::is_contract_active
has_contract_origination(b, c) == b.level = origin[c]
is_contract_active(b, c) == b.level > origin[c]
active_contracts(b) == {c \in DOMAIN origin : b.level >= origin[c]}

\* ------------------------------------------------------------------ the DB sink
EmptyDB ==
    [levels |-> {}, clevels |-> {}, orig |-> [c \in DOMAIN origin |-> None],
     txs |-> {}, rows |-> {}, max_id |-> 0]

get_level(d, l) == {r \in d.levels : r.level = l}
get_origination(d, c) == d.orig[c]
get_max_id(d) == d.max_id

delete_level(d, l) ==
    [d EXCEPT !.levels = {r \in @ : r.level # l},
              !.clevels = {x \in @ : x[2] # l},
              !.txs = {t \in @ : t.level # l},
              !.rows = {r \in @ : r.level # l}]
save_level(d, meta) == [d EXCEPT !.levels = @ \cup {meta}]
delete_contract_level(d, c, l) == [d EXCEPT !.clevels = @ \ {<<c, l>>}]
save_contract_level(d, c, l) == [d EXCEPT !.clevels = @ \cup {<<c, l>>}]
save_tx_contexts(d, c, l, id) ==
    [d EXCEPT !.txs = @ \cup {[id |-> id, level |-> l, contract |-> c]}]
apply_inserts(d, c, l, txid, id) ==
    [d EXCEPT !.rows = @ \cup {[id |-> id, tx |-> txid, level |-> l, contract |-> c]}]
set_max_id(d, id) == [d EXCEPT !.max_id = id]
set_origination(d, c, l) == [d EXCEPT !.orig[c] = l]

\* ------------------------------------------------------------------ the registry
Insert(f, k, v) == [x \in DOMAIN f \cup {k} |-> IF x = k THEN v ELSE f[x]]
UnwrapOr(x, d) == IF x = None THEN d ELSE x
MinOf(S) == CHOOSE m \in S : \A x \in S : m <= x

\* Executor::update_level_floor: the value level_floor holds afterwards
update_level_floor_keeps(cs, allc, lf) == lf
update_level_floor(cs, allc, lf) ==
    IF allc THEN lf
    ELSE IF DOMAIN cs = {} THEN 0
    ELSE MinOf({UnwrapOr(cs[c], 0) : c \in DOMAIN cs})

\* Executor::add_contract: the registry afterwards (level_floor is not touched)
add_contract(cs, d, c) == Insert(cs, c, get_origination(d, c))

\* Executor::add_missing_contracts
RECURSIVE add_missing_contracts(_, _, _)
add_missing_contracts(cs, d, new) ==
    IF new = {} THEN cs
    ELSE LET c == CHOOSE x \in new : TRUE
         IN add_missing_contracts(add_contract(cs, d, c), d, new \ {c})

\* ------------------------------------------------------------------ the hash-chain check
\* ensure_level_hash with the next level's own hash read where its prev_hash is meant
ensure_level_hash_next_hash(d, level, hash, prev_hash) ==
    LET prev == get_level(d, level - 1)
        next == get_level(d, level + 1)
    IN IF \E r \in prev : r.hash # prev_hash
       THEN [ok |-> FALSE, level |-> (CHOOSE r \in prev : TRUE).level]
       ELSE IF \E r \in next : r.hash # hash
       THEN [ok |-> FALSE, level |-> (CHOOSE r \in next : TRUE).level]
       ELSE [ok |-> TRUE, level |-> 0]

\* ensure_level_hash with the check against the next level left out
ensure_level_hash_prev_only(d, level, hash, prev_hash) ==
    LET prev == get_level(d, level - 1)
    IN IF \E r \in prev : r.hash # prev_hash
       THEN [ok |-> FALSE, level |-> (CHOOSE r \in prev : TRUE).level]
       ELSE [ok |-> TRUE, level |-> 0]

\* ensure_level_hash naming the previous level whichever neighbour disagrees
ensure_level_hash_names_prev(d, level, hash, prev_hash) ==
    LET prev == get_level(d, level - 1)
        next == get_level(d, level + 1)
    IN IF \E r \in prev : r.hash # prev_hash
       THEN [ok |-> FALSE, level |-> level - 1]
       ELSE IF \E r \in next : r.prev_hash # hash
       THEN [ok |-> FALSE, level |-> level - 1]
       ELSE [ok |-> TRUE, level |-> 0]

\* Executor::ensure_level_hash: Ok, or BadLevelHash naming a level
ensure_level_hash(d, level, hash, prev_hash) ==
    LET prev == get_level(d, level - 1)
        next == get_level(d, level + 1)
    IN IF \E r \in prev : r.hash # prev_hash
       THEN [ok |-> FALSE, level |-> (CHOOSE r \in prev : TRUE).level]
       ELSE IF \E r \in next : r.prev_hash # hash
       THEN [ok |-> FALSE, level |-> (CHOOSE r \in next : TRUE).level]
       ELSE [ok |-> TRUE, level |-> 0]

\* ------------------------------------------------------------------ the per-block transaction
\* The writes of a failed block left in place, as on a connection without a transaction
tx_rollback_keeps_writes(committed, t) == t

\* Dropping the Transaction (an early return by `?`) rolls it back; commit publishes it.
tx_rollback(committed, t) == committed
tx_commit(committed, t) == t

\* Executor::mark_level_empty
mark_level_empty(t, meta, c) ==
    save_contract_level(delete_contract_level(t, c, meta.level), c, meta.level)

\* Executor::save_level_processed_contract; the tx context takes id, the row id + 1
save_level_processed_contract(t, meta, c, id) ==
    apply_inserts(
        save_tx_contexts(
            save_contract_level(delete_contract_level(t, c, meta.level), c, meta.level),
            c, meta.level, id),
        c, meta.level, id, id + 1)

\* StorageProcessor::process_block: the id generator after a block's tx context and row
process_block_ids(id) == id + 2

\* Executor::mark_level_contract_origination
mark_level_contract_origination(t, meta, c) == set_origination(t, c, meta.level)

\* exec_for_block_contract without its set_max_id
exec_for_block_contract_no_max_id(t, meta, c, id) ==
    LET is_origination == has_contract_origination(meta, c)
    IN IF ~is_origination /\ ~is_contract_active(meta, c)
       THEN [t |-> mark_level_empty(t, meta, c), id |-> id,
             res |-> [level |-> meta.level, contract_id |-> c,
                      is_origination |-> FALSE, tx_count |-> 0]]
       ELSE LET t1 == save_level_processed_contract(t, meta, c, id)
                t3 == IF is_origination
                      THEN mark_level_contract_origination(t1, meta, c) ELSE t1
            IN [t |-> t3, id |-> process_block_ids(id),
                res |-> [level |-> meta.level, contract_id |-> c,
                         is_origination |-> is_origination, tx_count |-> 1]]

\* Executor::exec_for_block_contract on transaction view t with the id generator at id
exec_for_block_contract(t, meta, c, id) ==
    LET is_origination == has_contract_origination(meta, c)
    IN IF ~is_origination /\ ~is_contract_active(meta, c)
       THEN [t |-> mark_level_empty(t, meta, c), id |-> id,
             res |-> [level |-> meta.level, contract_id |-> c,
                      is_origination |-> FALSE, tx_count |-> 0]]
       ELSE LET t1 == save_level_processed_contract(t, meta, c, id)
                id1 == process_block_ids(id)
                t2 == set_max_id(t1, id1 + 1)
                t3 == IF is_origination
                      THEN mark_level_contract_origination(t2, meta, c) ELSE t2
            IN [t |-> t3, id |-> id1,
                res |-> [level |-> meta.level, contract_id |-> c,
                         is_origination |-> is_origination, tx_count |-> 1]]

\* The loop of exec_for_block over process_contracts; it fails (one `?` returns)
\* when the contract numbered fail is reached, fail = 0 never.
RECURSIVE contracts_loop(_, _, _, _, _, _)
contracts_loop(t, meta, todo, id, fail, results) ==
    IF fail = 1 THEN [failed |-> TRUE, t |-> t, results |-> results]
    ELSE IF todo = {} THEN [failed |-> FALSE, t |-> t, results |-> results]
    ELSE LET c == CHOOSE x \in todo : TRUE
             r == exec_for_block_contract(t, meta, c, id)
         IN contracts_loop(r.t, meta, todo \ {c}, r.id,
                           IF fail = 0 THEN 0 ELSE fail - 1, results \cup {r.res})

\* block_transaction without the delete_level that opens it
block_transaction_no_delete(d, meta, pcs, fail) ==
    LET id == get_max_id(d)
        t0 == save_level(d, meta)
        r == contracts_loop(t0, meta, pcs, id, fail, {})
    IN IF r.failed
       THEN [ok |-> FALSE, db |-> tx_rollback(d, r.t), results |-> {}]
       ELSE [ok |-> TRUE, db |-> tx_commit(d, r.t), results |-> r.results]

\* Executor::exec_for_block from get_storage_processor to tx.commit: fail = 0 commits,
\* fail = k fails at the k-th contract, fail = n + 1 fails in commit
block_transaction(d, meta, pcs, fail) ==
    LET id == get_max_id(d)
        t0 == save_level(delete_level(d, meta.level), meta)
        r == contracts_loop(t0, meta, pcs, id, fail, {})
    IN IF r.failed
       THEN [ok |-> FALSE, db |-> tx_rollback(d, r.t), results |-> {}]
       ELSE [ok |-> TRUE, db |-> tx_commit(d, r.t), results |-> r.results]

\* Executor::update_contract_floor for every origination of the committed block
update_contract_floor(cs, results) ==
    [c \in DOMAIN cs |->
        IF \E r \in results : r.contract_id = c /\ r.is_origination
        THEN (CHOOSE r \in results : r.contract_id = c /\ r.is_origination).level
        ELSE cs[c]]

\* ------------------------------------------------------------------ the schema builder
\* Names are sequences of tokens: the string is the tokens joined by "_" (the token
\* "." joins without one), so that format!("{}_{}", a, b) is the concatenation of
\* the tokens of a and b. A dotted table name is the sequence of its names.
MaxEles == 3

\* format!("{}", c) of a counter
Dec(c) == <<"0", "1", "2", "3", "4", "5", "6", "7", "8", "9">>[c + 1]
\* format!("{}_{}", name, c)
Suffixed(name, c) == Append(name, Dec(c))
\* Option<String>::None of Ele.name
NoName == <<>>

SimpleTypes == {"nat", "unit", "string", "mutez", "address"}
\* get_column_name
get_column_name(ele) == IF ele.ty \in SimpleTypes THEN <<ele.ty>> ELSE <<>>

\* Context::init
ContextInit == [table_name |-> << <<"storage">> >>, prefix |-> <<>>]
\* Context::apply_prefix
apply_prefix_plain(ctx, name) == ctx.prefix \o name
apply_prefix(ctx, name) ==
    LET res == ctx.prefix \o name
    IN IF res = <<"level">> \/ res = <<"level", "timestamp">> THEN <<".">> \o res ELSE res
\* Context::next_with_prefix
next_with_prefix(ctx, prefix) ==
    IF prefix # NoName THEN [ctx EXCEPT !.prefix = prefix] ELSE ctx
\* Context::start_table
ctx_start_table_in_root(ctx, name) == [ctx EXCEPT !.table_name = <<@[1], name>>]
ctx_start_table(ctx, name) == [ctx EXCEPT !.table_name = Append(@, name)]
\* Context::table_leaf_name
table_leaf_name(ctx) == ctx.table_name[Len(ctx.table_name)]

\* ele_with_annot, ele_set_annot
ele_with_annot_never(ele, annot) == ele
ele_with_annot(ele, annot) == IF ele.name # NoName THEN ele ELSE [ele EXCEPT !.name = annot]
ele_set_annot(ele, annot) == [ele EXCEPT !.name = annot]

\* ASTBuilder::new, with the requests it served so far
NewBuilder ==
    [table_names |-> [n \in {} |-> 0], column_names |-> [n \in {} |-> 0], requests |-> <<>>]

\* The counter of start_table and column_name: 0 for a key not seen, otherwise the
\* key's counter plus one, raised while the suffixed key is itself a key
free_counter_no_skip(names, scope, name, c) == c
RECURSIVE free_counter(_, _, _, _)
free_counter(names, scope, name, c) ==
    IF <<scope, Suffixed(name, c)>> \in DOMAIN names
    THEN free_counter(names, scope, name, c + 1)
    ELSE c
next_counter(names, scope, name) ==
    IF <<scope, name>> \in DOMAIN names
    THEN free_counter(names, scope, name, names[<<scope, name>>] + 1)
    ELSE 0
counted_name(name, c) == IF c = 0 THEN name ELSE Suffixed(name, c)

\* ASTBuilder::start_table: the builder and the context afterwards
start_table(b, ctx, ele) ==
    LET name == IF ele.name # NoName THEN ele.name ELSE <<"noname">>
        c == next_counter(b.table_names, <<>>, name)
        res == counted_name(name, c)
    IN [b |-> [b EXCEPT !.table_names = Insert(@, <<<<>>, name>>, c),
                        !.requests = Append(@, [kind |-> "table", scope |-> ctx.table_name,
                                                prefix |-> ctx.prefix, is_index |-> FALSE,
                                                local |-> name, name |-> name,
                                                res |-> res])],
        ctx |-> ctx_start_table(ctx, res)]

\* ASTBuilder::column_name: the builder and the name afterwards
column_name(b, ctx, ele, is_index) ==
    LET name0 == IF ele.name # NoName THEN ele.name ELSE get_column_name(ele)
        name1 == apply_prefix(ctx, name0)
        name == IF is_index THEN <<"idx">> \o name1 ELSE name1
        c == next_counter(b.column_names, ctx.table_name, name)
        res == counted_name(name, c)
    IN [b |-> [b EXCEPT !.column_names = Insert(@, <<ctx.table_name, name>>, c),
                        !.requests = Append(@, [kind |-> "column", scope |-> ctx.table_name,
                                                prefix |-> ctx.prefix,
                                                is_index |-> is_index,
                                                local |-> name0, name |-> name,
                                                res |-> res])],
        name |-> res]

\* RelationalAST::Leaf and the RelationalEntry of a tag
RelationalEntry_elsewhere(ctx, column, ty, value, is_index) ==
    [table_name |-> Append(ctx.table_name, column), column_name |-> column,
     column_type |-> ty, value |-> value, is_index |-> is_index]
RelationalEntry(ctx, column, ty, value, is_index) ==
    [table_name |-> ctx.table_name, column_name |-> column, column_type |-> ty,
     value |-> value, is_index |-> is_index]
Leaf_no_value(entry) == [node |-> "Leaf", rel_entry |-> [entry EXCEPT !.value = NoName]]
Leaf(entry) == [node |-> "Leaf", rel_entry |-> entry]
\* What a build returns: the builder afterwards, and the AST or the error
NoTable == <<>>
Built(b, ast) == [b |-> b, ast |-> ast, table |-> NoTable, err |-> FALSE]
BuildErr(b) == [b |-> b, ast |-> [node |-> "Err"], table |-> NoTable, err |-> TRUE]

RECURSIVE build_relational_ast(_, _, _)
RECURSIVE build_enumeration_or_internal(_, _, _, _, _, _)
RECURSIVE build_index(_, _, _)

\* ASTBuilder::build_enumeration_or
build_enumeration_or(b, ctx, ele, column, is_index) ==
    LET n == column_name(b, ctx, ele_set_annot(ele, column), FALSE)
        rel_entry == RelationalEntry(ctx, n.name, "string", NoName, is_index)
    IN build_enumeration_or_internal(n.b, ctx, ele, column, is_index, <<rel_entry>>)

\* ASTBuilder::build_enumeration_or_internal: the result with the table it is in
build_enumeration_or_internal(b, ctx, ele, column, is_index, or_unfold) ==
    IF ele.ty = "or"
    THEN LET l == build_enumeration_or_internal(b, ctx, ele.args[1], column, FALSE, <<>>)
         IN IF l.err THEN l
            ELSE LET r == build_enumeration_or_internal(l.b, ctx, ele.args[2], column,
                                                        FALSE, <<>>)
                 IN IF r.err THEN r
                    ELSE [Built(r.b,
                            [node |-> "OrEnumeration",
                             or_unfold |-> or_unfold,
                             left_table |-> IF l.table # ctx.table_name
                                            THEN l.table ELSE NoTable,
                             left_ast |-> l.ast,
                             right_table |-> IF r.table # ctx.table_name
                                             THEN r.table ELSE NoTable,
                             right_ast |-> r.ast])
                          EXCEPT !.table = ctx.table_name]
    ELSE IF ele.ty = "unit"
    THEN LET n == column_name(b, ctx, ele_set_annot(ele, column), FALSE)
         IN [Built(n.b, Leaf(RelationalEntry(ctx, n.name, ele.ty, ele.name, is_index)))
             EXCEPT !.table = ctx.table_name]
    ELSE LET name == IF ele.name # NoName THEN ele.name
                     ELSE IF get_column_name(ele) # <<>> THEN get_column_name(ele)
                     ELSE <<"noname">>
             t == start_table(b, ctx, ele_set_annot(ele, name))
             ele2 == ele_set_annot(ele, table_leaf_name(t.ctx))
             r == IF is_index THEN build_index(t.b, t.ctx, ele2)
                  ELSE build_relational_ast(t.b, t.ctx, ele2)
         IN [r EXCEPT !.table = t.ctx.table_name]

\* ASTBuilder::build_index
build_index(b, ctx, ele) ==
    IF ele.ty = "pair"
    THEN LET ctx2 == next_with_prefix(ctx, ele.name)
             l == build_index(b, ctx2, ele.args[1])
         IN IF l.err THEN l
            ELSE LET r == build_index(l.b, ctx2, ele.args[2])
                 IN IF r.err THEN r
                    ELSE Built(r.b, [node |-> "Pair", left_ast |-> l.ast,
                                     right_ast |-> r.ast])
    ELSE IF ele.ty = "or"
    THEN build_enumeration_or(b, ctx, ele,
             IF ele.name # NoName THEN ele.name ELSE <<"noname">>, TRUE)
    ELSE IF ele.ty \notin SimpleTypes
    THEN BuildErr(b)
    ELSE LET n == column_name(b, ctx, ele, TRUE)
         IN Built(n.b, Leaf(RelationalEntry(ctx, n.name, ele.ty, NoName, TRUE)))

\* ASTBuilder::build_relational_ast
build_relational_ast(b, ctx, ele) ==
    IF ele.ty = "pair"
    THEN LET ctx2 == next_with_prefix(ctx, ele.name)
             l == build_relational_ast(b, ctx2, ele.args[1])
         IN IF l.err THEN l
            ELSE LET r == build_relational_ast(l.b, ctx2, ele.args[2])
                 IN IF r.err THEN r
                    ELSE Built(r.b, [node |-> "Pair", left_ast |-> l.ast,
                                     right_ast |-> r.ast])
    ELSE IF ele.ty = "list"
    THEN LET t == start_table(b, ctx, ele)
             e == IF ele.unique THEN build_index(t.b, t.ctx, ele.args[1])
                  ELSE build_relational_ast(t.b, t.ctx, ele.args[1])
         IN IF e.err THEN e
            ELSE Built(e.b, [node |-> "List", table |-> t.ctx.table_name,
                             elems_unique |-> ele.unique, elems_ast |-> e.ast])
    ELSE IF ele.ty \in {"bigmap", "map"}
    THEN LET t == start_table(b, ctx, ele)
             k == build_index(t.b, t.ctx, ele.args[1])
         IN IF k.err THEN k
            ELSE LET v == build_relational_ast(k.b, t.ctx, ele.args[2])
                 IN IF v.err THEN v
                    ELSE Built(v.b, [node |-> IF ele.ty = "map" THEN "Map" ELSE "BigMap",
                                     table |-> t.ctx.table_name,
                                     key_ast |-> k.ast, value_ast |-> v.ast])
    ELSE IF ele.ty = "option"
    THEN LET e == build_relational_ast(b, ctx, ele_with_annot(ele.args[1], ele.name))
         IN IF e.err THEN e
            ELSE Built(e.b, [node |-> "Option", elem_ast |-> e.ast])
    ELSE IF ele.ty = "or"
    THEN build_enumeration_or(b, ctx, ele,
             IF ele.name # NoName THEN ele.name ELSE <<"noname">>, FALSE)
    ELSE LET n == column_name(b, ctx, ele, FALSE)
         IN Built(n.b, Leaf(RelationalEntry(ctx, n.name, ele.ty, NoName, FALSE)))

\* The storage types the builder is given: Ele values
Simple(n, t) == [ty |-> t, name |-> n, args |-> <<>>, unique |-> FALSE]
Complex(n, t, args) == [ty |-> t, name |-> n, args |-> args, unique |-> FALSE]
SetOf(n, e) == [ty |-> "list", name |-> n, args |-> <<e>>, unique |-> TRUE]
Annots == {NoName, <<"a">>, <<"a", "1">>}
Nat0 == Simple(NoName, "nat")
Unit0 == Simple(NoName, "unit")
EleItems ==
    UNION {{Simple(n, "nat"),
            Complex(n, "list", <<Nat0>>),
            SetOf(n, Nat0),
            Complex(n, "map", <<Nat0, Nat0>>),
            Complex(n, "or", <<Unit0, Unit0>>),
            Complex(n, "or", <<Unit0, Nat0>>)} : n \in Annots}
    \cup {Complex(NoName, "option", <<Nat0>>),
          Complex(NoName, "bigmap", <<Simple(<<"a">>, "string"), Simple(<<"a">>, "nat")>>),
          Complex(NoName, "map", <<Complex(NoName, "option", <<Nat0>>), Nat0>>)}

\* The right-nested pairs of the elements of a sequence
RECURSIVE PairsOf(_)
PairsOf(es) ==
    IF Len(es) = 1 THEN es[1]
    ELSE Complex(NoName, "pair", <<es[1], PairsOf(Tail(es))>>)

RECURSIVE ItemSeqs(_)
ItemSeqs(n) ==
    IF n = 1 THEN {<<e>> : e \in EleItems}
    ELSE LET shorter == ItemSeqs(n - 1)
         IN shorter \cup {<<e>> \o q : e \in EleItems, q \in {x \in shorter : Len(x) = n - 1}}
EleInputs == {PairsOf(es) : es \in ItemSeqs(MaxEles)}

\* Storage types of every shape: leaves of every simple type, annotated pairs in
\* pairs, maps, big maps, sets and lists over keys of every kind, or-enumerations
\* over arms of every kind, options; alone, beside a leaf, beside a list, in a list
Pair(n, l, r) == Complex(n, "pair", <<l, r>>)
Or(n, l, r) == Complex(n, "or", <<l, r>>)
Opt(n, e) == Complex(n, "option", <<e>>)
ListOf(n, e) == Complex(n, "list", <<e>>)
MapOf(n, k, v) == Complex(n, "map", <<k, v>>)
ShapeLeaves ==
    {Simple(n, "nat") : n \in {NoName, <<"a">>, <<"b">>, <<"level">>, <<"timestamp">>,
                               <<"level", "timestamp">>}}
    \cup {Simple(n, t) : n \in {NoName, <<"a">>}, t \in SimpleTypes}
ShapePairs ==
    {Pair(p, x, Pair(q, y, z)) :
        p \in {NoName, <<"a">>, <<"b">>, <<"level">>},
        q \in {NoName, <<"a">>, <<"b">>, <<"level">>},
        x \in {Nat0, Simple(<<"c">>, "nat")},
        y \in {Nat0, Simple(<<"c">>, "nat"), Simple(<<"timestamp">>, "nat"),
               Simple(<<"level">>, "nat")},
        z \in {Nat0, Simple(<<"c">>, "nat"), Simple(<<"timestamp">>, "nat"),
               Simple(<<"level">>, "nat")}}
ShapeKeys ==
    {Nat0, Simple(<<"a">>, "string"), Simple(<<"level">>, "nat"),
     Pair(<<"a">>, Nat0, Simple(NoName, "string")),
     Pair(NoName, Simple(<<"level">>, "nat"), Nat0),
     Or(NoName, Unit0, Unit0),
     Or(<<"a">>, Simple(<<"mint">>, "unit"), Simple(<<"burn">>, "unit")),
     Or(NoName, Unit0, Nat0),
     Or(NoName, Pair(NoName, Nat0, Nat0), Unit0),
     Or(NoName, Or(NoName, Unit0, Unit0), Unit0),
     Opt(NoName, Nat0),
     ListOf(NoName, Nat0),
     MapOf(NoName, Nat0, Nat0),
     Pair(NoName, Nat0, Opt(NoName, Nat0)),
     Pair(NoName, ListOf(NoName, Nat0), Nat0),
     Or(NoName, Unit0, Opt(NoName, Nat0)),
     Or(NoName, ListOf(NoName, Nat0), Unit0),
     Pair(NoName, Or(NoName, Unit0, Opt(NoName, Nat0)), Nat0)}
ShapeVals ==
    {Nat0, Simple(<<"a">>, "nat"), Or(NoName, Unit0, Unit0), ListOf(NoName, Nat0),
     Opt(<<"a">>, Nat0), Pair(<<"a">>, Nat0, Nat0), MapOf(NoName, Nat0, Nat0)}
ShapeMaps ==
    {Complex(n, t, <<k, v>>) :
        n \in {NoName, <<"a">>}, t \in {"map", "bigmap"}, k \in ShapeKeys, v \in ShapeVals}
    \cup {SetOf(n, k) : n \in {NoName, <<"a">>}, k \in ShapeKeys}
    \cup {ListOf(n, k) : n \in {NoName, <<"a">>}, k \in ShapeKeys}
ShapeArms ==
    {Unit0, Simple(<<"mint">>, "unit"), Simple(<<"burn">>, "unit"),
     Nat0, Simple(<<"a">>, "nat"), Simple(NoName, "string"),
     ListOf(NoName, Nat0), ListOf(<<"a">>, Nat0),
     Pair(NoName, Nat0, Nat0), Pair(<<"a">>, Nat0, Nat0),
     Or(NoName, Simple(<<"mint">>, "unit"), Unit0), Or(NoName, Unit0, Nat0),
     Opt(NoName, Nat0), Opt(<<"a">>, Nat0), MapOf(NoName, Nat0, Nat0)}
ShapeOrs == {Or(n, l, r) : n \in {NoName, <<"a">>}, l \in ShapeArms, r \in ShapeArms}
ShapeOptions ==
    {Opt(n, e) : n \in {NoName, <<"a">>, <<"level">>},
                 e \in {Nat0, Simple(<<"b">>, "nat"), Opt(<<"b">>, Nat0), Opt(NoName, Nat0),
                        Pair(NoName, Nat0, Nat0), Pair(<<"b">>, Nat0, Nat0),
                        ListOf(NoName, Nat0), Or(NoName, Unit0, Unit0)}}
ShapeInputs ==
    ShapeLeaves \cup ShapePairs
    \cup UNION {{x, Pair(NoName, x, Nat0), Pair(<<"a">>, Nat0, x),
                 Pair(NoName, ListOf(<<"nat">>, Nat0), x), ListOf(NoName, x)} :
                    x \in ShapeMaps \cup ShapeOrs \cup ShapeOptions}

NoEle == Nat0

\* ------------------------------------------------------------------ the DDL emitter
\* The String of a table name: format!("{}.{}", table_name, name) at every table
\* started, the "." token joining without underscores
RECURSIVE dotted(_)
dotted(t) ==
    IF Len(t) = 1 THEN t[1]
    ELSE dotted(SubSeq(t, 1, Len(t) - 1)) \o <<".">> \o t[Len(t)]

\* The entries (tags and leaves) of a RelationalAST in the order they were built,
\* and the tables it introduces
RECURSIVE EntrySeq(_)
EntrySeq(ast) ==
    CASE ast.node = "Leaf" -> <<ast.rel_entry>>
      [] ast.node = "Pair" -> EntrySeq(ast.left_ast) \o EntrySeq(ast.right_ast)
      [] ast.node = "Option" -> EntrySeq(ast.elem_ast)
      [] ast.node = "List" -> EntrySeq(ast.elems_ast)
      [] ast.node \in {"Map", "BigMap"} -> EntrySeq(ast.key_ast) \o EntrySeq(ast.value_ast)
      [] ast.node = "OrEnumeration" ->
            ast.or_unfold \o EntrySeq(ast.left_ast) \o EntrySeq(ast.right_ast)
RECURSIVE EmittedTables(_)
EmittedTables(ast) ==
    CASE ast.node = "Leaf" -> {}
      [] ast.node = "Pair" -> EmittedTables(ast.left_ast) \cup EmittedTables(ast.right_ast)
      [] ast.node = "Option" -> EmittedTables(ast.elem_ast)
      [] ast.node = "List" -> {ast.table} \cup EmittedTables(ast.elems_ast)
      [] ast.node \in {"Map", "BigMap"} ->
            {ast.table} \cup EmittedTables(ast.key_ast) \cup EmittedTables(ast.value_ast)
      [] ast.node = "OrEnumeration" ->
            ({ast.left_table, ast.right_table} \ {NoTable})
            \cup EmittedTables(ast.left_ast) \cup EmittedTables(ast.right_ast)

\* The Table of a table name: its columns are the entries of the table, its indices
\* the index entries
TableOf(ast, t) ==
    LET cols == SelectSeq(EntrySeq(ast), LAMBDA e : e.table_name = t)
        idx == SelectSeq(cols, LAMBDA e : e.is_index)
    IN [name |-> dotted(t),
        columns |-> [i \in 1..Len(cols) |->
                        [name |-> cols[i].column_name, column_type |-> cols[i].column_type]],
        indices |-> [i \in 1..Len(idx) |-> idx[i].column_name]]

\* PostgresqlGenerator::create_sql: the SQL type of a column
create_sql(column) ==
    CASE column.column_type = "address" -> "VARCHAR(127) NULL"
      [] column.column_type = "unit" -> "VARCHAR(128) NULL"
      [] column.column_type \in {"nat", "mutez"} -> "NUMERIC(64) NULL"
      [] column.column_type = "string" -> "TEXT NULL"

\* rfind('.'): the last position of the "." token, 0 when there is none
rfind_dot(name) ==
    LET dots == {i \in 1..Len(name) : name[i] = "."}
    IN IF dots = {} THEN 0 ELSE CHOOSE i \in dots : \A j \in dots : j <= i
\* PostgresqlGenerator::parent_name: NoName is None
parent_name_first(name) ==
    LET dots == {i \in 1..Len(name) : name[i] = "."}
    IN IF dots = {} THEN NoName
       ELSE SubSeq(name, 1, (CHOOSE i \in dots : \A j \in dots : i <= j) - 1)
parent_name(name) ==
    IF rfind_dot(name) = 0 THEN NoName ELSE SubSeq(name, 1, rfind_dot(name) - 1)
\* format!("{}_id", parent)
id_of(parent) == Append(parent, "id")
\* PostgresqlGenerator::parent_key
parent_key(table) ==
    IF parent_name(table.name) # NoName THEN <<id_of(parent_name(table.name))>> ELSE <<>>
\* PostgresqlGenerator::create_columns
create_columns(table) ==
    (IF parent_name(table.name) # NoName
     THEN <<[name |-> id_of(parent_name(table.name)), sql |-> "INTEGER"]>>
     ELSE <<>>)
    \o [i \in 1..Len(table.columns) |->
           [name |-> table.columns[i].name, sql |-> create_sql(table.columns[i])]]
\* PostgresqlGenerator::indices
indices(table) == table.indices \o parent_key(table)
\* PostgresqlGenerator::create_foreign_key_constraint
create_foreign_key_constraint(table) ==
    IF parent_name(table.name) # NoName
    THEN <<[key |-> id_of(parent_name(table.name)),
            references |-> parent_name(table.name)]>>
    ELSE <<>>
\* PostgresqlGenerator::create_table_definition: columns[0] of no columns panics
create_table_definition(table) ==
    IF create_columns(table) = <<>>
    THEN [panic |-> TRUE, name |-> table.name, columns |-> <<>>, foreign_key |-> <<>>,
          index |-> <<>>]
    ELSE [panic |-> FALSE, name |-> table.name, columns |-> create_columns(table),
          foreign_key |-> create_foreign_key_constraint(table),
          index |-> indices(table)]
NoBuilt == [done |-> FALSE, res |-> BuildErr(NewBuilder)]

\* ------------------------------------------------------------------ the call machinery
Frame(meta, cleanup) ==
    [meta |-> meta, cleanup |-> cleanup, pc |-> "check", bad |-> 0, results |-> {}]
Top == stack[Len(stack)]
SetTop(f) == [stack EXCEPT ![Len(stack)] = f]
Ret(kind, level) == [kind |-> kind, level |-> level]
\* read_block_chan runs one exec_for_block at a time
Idle_any == ret.kind # "overflow"
Idle == stack = <<>> /\ ret.kind # "overflow"

\* The hash-chain invariant of the levels table
ChainOK(d) ==
    \A r \in d.levels : \A s \in d.levels :
        s.level = r.level + 1 => s.prev_hash = r.hash

\* History: a level sent to the workers by the selector, or fetched from the node for
\* reprocessing, while below level_floor
Logged(l, by) ==
    IF ~all_contracts /\ l < level_floor
    THEN below_floor \cup {[level |-> l, floor |-> level_floor, by |-> by]}
    ELSE below_floor

NoBlock == [level |-> 0, hash |-> GenesisHash, prev_hash |-> GenesisHash]
NoCall ==
    [block |-> NoBlock, cleanup |-> FALSE, repeat |-> FALSE, chk |-> "none",
     ok0 |-> TRUE, db0 |-> EmptyDB, registered |-> {}]
NewCall(b, cleanup, repeat) ==
    [block |-> b, cleanup |-> cleanup, repeat |-> repeat, chk |-> "none",
     ok0 |-> ChainOK(db), db0 |-> IF budget.track THEN db ELSE EmptyDB,
     registered |-> {}]

\* The DB an earlier run left: the levels of S, of the chain before any reorg, each
\* ingested by block_transaction for the contracts cs, in increasing order.
RECURSIVE PriorRun(_, _, _)
PriorRun(d, S, cs) ==
    IF S = {} THEN d
    ELSE LET l == MinOf(S)
             meta == [level |-> l, hash |-> HashOf(l, 0),
                      prev_hash |-> IF l = 1 THEN GenesisHash ELSE HashOf(l - 1, 0)]
         IN PriorRun(block_transaction(d, meta, cs, 0).db, S \ {l}, cs)

\* exec_parallel, lines 421-423: flume::bounded(num_getters) for either channel
ChanFull_twice(ch) == Len(ch) >= 2 * W
\* exec_parallel's num_getters: the number of workers of the pool
num_getters == Cardinality(DOMAIN workers)
ChanFull(ch) == Len(ch) >= num_getters

\* flume's recv: the channel once one receiver took its first message
recv_peek(ch) == ch
recv(ch) == Tail(ch)

\* sent: the levels the selector sent on levels_in so far
NoSelector == [levels |-> <<>>, todo |-> <<>>, pending |-> 0, done |-> TRUE, sent |-> <<>>]
IdleWorker == [st |-> "idle", block |-> NoBlock]

\* exec_continuous is not running
NoCont ==
    [pc |-> "off", chain_head |-> NoBlock, db_head |-> 0, level |-> 0, last |-> 0,
     pass |-> <<>>, repopulated |-> 0]

\* exec_missing_levels is not running
\* reported: the levels get_missing_levels gave for the pass begun last
NoMissing ==
    [pc |-> "off", latest0 |-> 0, passes |-> 0, dependents |-> 0, reported |-> {}]

\* exec_new_contracts_historically is not running
\* seen: the registry at the last turn of the loop
NoHist ==
    [pc |-> "off", rounds |-> 0, todo |-> <<>>, res |-> {}, reprocessed |-> FALSE,
     seen |-> {}]

\* The derived tables follow the stored levels (stale: a stored level was rolled back
\* and they were not repopulated since); missed: a further pass was begun, or the
\* operation returned, while they were stale
Fresh == [stale |-> FALSE, missed |-> FALSE]
rolled_back(d) == [d EXCEPT !.stale = TRUE]
pass_begun(d) == [d EXCEPT !.missed = @ \/ d.stale]
\* Executor::repopulate_derived_tables, as it leaves the derived tables
derived_repopulated(d) == [d EXCEPT !.stale = FALSE]

InitOf(stored, b, h, pool) ==
    /\ chain = [l \in Levels |-> 0]
    /\ nver = 0
    /\ head = h
    /\ cont = NoCont
    /\ missing = NoMissing
    /\ hist = NoHist
    /\ derived = Fresh
    /\ db = PriorRun(EmptyDB, stored, Contracts)
    /\ phase = "setup"
    /\ contracts = [c \in {} |-> None]
    /\ all_contracts = FALSE
    /\ level_floor = 0
    /\ stack = <<>>
    /\ ret = Ret("none", 0)
    /\ selector = NoSelector
    /\ levels_in = <<>>
    /\ workers = [w \in pool |-> IdleWorker]
    /\ blocks_out = <<>>
    /\ processed_levels = <<>>
    /\ budget = b
    /\ call = NoCall
    /\ below_floor = {}

InitAt(stored, b, h) == InitOf(stored, b, h, Workers)
InitWith(stored, b) == InitAt(stored, b, MaxLevel)

\* No schema is being built
NoSchema == type_ast = NoEle /\ built = NoBuilt

\* The node's chain is reorganised from level k up: every block from k on is replaced.
Reorg(k) ==
    /\ nver < MaxReorgs
    /\ nver' = nver + 1
    /\ chain' = [l \in Levels |-> IF l >= k THEN nver + 1 ELSE chain[l]]
    /\ UNCHANGED <<schemaVars, origin, head, cont, missing, hist, derived, db, phase,
                   execVars, stack, ret, pipeVars, blocks_out, budget, call,
                   below_floor>>

\* main: executor.add_contract for a configured contract
AddContract(c) ==
    /\ phase = "setup" /\ ~all_contracts
    /\ c \notin DOMAIN contracts
    /\ contracts' = add_contract(contracts, db, c)
    /\ UNCHANGED <<schemaVars, nodeVars, modeVars, db, phase, all_contracts, level_floor, stack, ret,
                   pipeVars, blocks_out, budget, call, below_floor>>

\* main: index_all_contracts
IndexAllContracts ==
    /\ phase = "setup" /\ ~all_contracts /\ DOMAIN contracts = {}
    /\ all_contracts' = TRUE
    /\ UNCHANGED <<schemaVars, nodeVars, modeVars, db, phase, contracts, level_floor, stack, ret,
                   pipeVars, blocks_out, budget, call, below_floor>>

\* main: the registry is set up (assert_contracts_ok), ingestion starts
SetupDone ==
    /\ phase = "setup"
    /\ all_contracts \/ DOMAIN contracts = Contracts
    /\ phase' = "ready"
    /\ UNCHANGED <<schemaVars, nodeVars, modeVars, db, execVars, stack, ret, pipeVars, blocks_out,
                   budget, call, below_floor>>

\* A block of level l, fetched from the node, reaches blocks_out (the workers of
\* the pipeline, not followed one by one).
FetchBlock(l) ==
    /\ phase = "ready" /\ ret.kind # "overflow"
    /\ ~ChanFull(blocks_out)
    /\ budget.calls > Len(blocks_out)
    /\ blocks_out' = Append(blocks_out, level_json(l))
    /\ UNCHANGED <<schemaVars, nodeVars, modeVars, db, phase, execVars, stack, ret, pipeVars, budget, call,
                   below_floor>>

\* Executor::read_block_chan takes the next block: exec_for_block(meta, block, true, false)
RecvBlock ==
    /\ phase \in {"ready", "par"} /\ Idle /\ blocks_out # <<>> /\ budget.calls > 0
    /\ stack' = <<Frame(Head(blocks_out), TRUE)>>
    /\ blocks_out' = recv(blocks_out)
    /\ call' = NewCall(Head(blocks_out), TRUE, FALSE)
    /\ ret' = Ret("none", 0)
    /\ budget' = [budget EXCEPT !.calls = @ - 1]
    /\ UNCHANGED <<schemaVars, nodeVars, modeVars, db, phase, execVars, pipeVars, below_floor>>

\* Executor::exec_level(l, false, _) called directly (as exec_continuous does)
ExecLevel(l) ==
    /\ phase = "ready" /\ Idle /\ budget.calls > 0
    /\ stack' = <<Frame(level_json(l), FALSE)>>
    /\ call' = NewCall(level_json(l), FALSE, FALSE)
    /\ ret' = Ret("none", 0)
    /\ budget' = [budget EXCEPT !.calls = @ - 1]
    /\ UNCHANGED <<schemaVars, nodeVars, modeVars, db, phase, execVars, pipeVars, blocks_out, below_floor>>

\* exec_for_block is run once more on the block of the call that just returned
RepeatBlock ==
    /\ phase = "ready" /\ Idle /\ budget.calls > 0
    /\ ret.kind = "ok" /\ ~call.repeat
    /\ stack' = <<Frame(call.block, call.cleanup)>>
    /\ call' = NewCall(call.block, call.cleanup, TRUE)
    /\ ret' = Ret("none", 0)
    /\ budget' = [budget EXCEPT !.calls = @ - 1]
    /\ UNCHANGED <<schemaVars, nodeVars, modeVars, db, phase, execVars, pipeVars, blocks_out, below_floor>>

\* An Err reaches the caller of exec_for_block: read_block_chan and exec_parallel
\* return it, and main's unwrap ends the process.
Failed(p) == IF p \in {"par", "hist"} THEN "failed" ELSE p

\* exec_for_block, lines 595-606: the hash-chain check of the running call
Check ==
    /\ stack # <<>> /\ Top.pc = "check"
    /\ LET f == Top
           r == ensure_level_hash(db, f.meta.level, f.meta.hash, f.meta.prev_hash)
           kind == IF r.ok THEN "ok"
                   ELSE IF r.level < f.meta.level THEN "prev" ELSE "next"
       IN /\ call' = IF Len(stack) = 1 THEN [call EXCEPT !.chk = kind] ELSE call
          /\ IF r.ok
             THEN /\ stack' = SetTop([f EXCEPT !.pc = "tx"])
                  /\ ret' = ret
                  /\ phase' = phase
             ELSE IF ~f.cleanup
             THEN /\ stack' = <<>>
                  /\ ret' = Ret("bad", r.level)
                  /\ phase' = Failed(phase)
             ELSE /\ stack' = SetTop([f EXCEPT !.pc = "call", !.bad = r.level])
                  /\ ret' = ret
                  /\ phase' = phase
    /\ UNCHANGED <<schemaVars, nodeVars, modeVars, db, execVars, pipeVars, blocks_out, budget, below_floor>>

\* exec_for_block, line 605: exec_level(bad_lvl.level, true, _) fetches the level and
\* runs exec_for_block on it
Reprocess ==
    /\ stack # <<>> /\ Top.pc = "call"
    /\ LET g == Frame(level_json(Top.bad), TRUE)
       IN /\ \A i \in 1..Len(stack) : stack[i].meta # g.meta
          /\ stack' = Append(SetTop([Top EXCEPT !.pc = "wait"]), g)
    /\ below_floor' = Logged(Top.bad, "reprocess")
    /\ UNCHANGED <<schemaVars, nodeVars, modeVars, db, phase, execVars, ret, pipeVars, blocks_out, budget, call>>

\* The same block is about to be reprocessed inside its own reprocessing: with the
\* node and the DB as they are the recursion never ends, and the stack overflows.
Overflow ==
    /\ stack # <<>> /\ Top.pc = "call"
    /\ \E i \in 1..Len(stack) : stack[i].meta = level_json(Top.bad)
    /\ stack' = <<>>
    /\ ret' = Ret("overflow", Top.bad)
    /\ phase' = Failed(phase)
    /\ UNCHANGED <<schemaVars, nodeVars, modeVars, db, execVars, pipeVars, blocks_out, budget, call, below_floor>>

process_contracts(cs, allc, meta) == IF allc THEN active_contracts(meta) ELSE DOMAIN cs

\* exec_for_block, lines 617-620: the active contracts the registry does not hold
new_contracts_unfiltered(cs, meta) == active_contracts(meta)
new_contracts(cs, meta) == active_contracts(meta) \ DOMAIN cs

\* exec_for_block, lines 608-667: register unknown contracts, then the transaction
Transact(fail) ==
    /\ stack # <<>> /\ Top.pc = "tx"
    /\ fail = 0 \/ budget.fails > 0
    /\ LET f == Top
           new == IF all_contracts THEN new_contracts(contracts, f.meta) ELSE {}
           cs == IF all_contracts
                 THEN add_missing_contracts(contracts, db, new)
                 ELSE contracts
           pcs == process_contracts(cs, all_contracts, f.meta)
           r == block_transaction(db, f.meta, pcs, fail)
       IN /\ fail <= Cardinality(pcs) + 1
          /\ contracts' = cs
          /\ call' = [call EXCEPT !.registered = new]
          /\ db' = r.db
          /\ derived' = IF r.ok /\ Len(stack) > 1 THEN rolled_back(derived) ELSE derived
          /\ IF r.ok
             THEN /\ stack' = SetTop([f EXCEPT !.pc = "post", !.results = r.results])
                  /\ ret' = ret
                  /\ budget' = budget
                  /\ phase' = phase
             ELSE /\ stack' = <<>>
                  /\ ret' = Ret("err", f.meta.level)
                  /\ budget' = [budget EXCEPT !.fails = @ - 1]
                  /\ phase' = Failed(phase)
    /\ UNCHANGED <<schemaVars, nodeVars, cont, missing, hist, all_contracts, level_floor,
                   pipeVars, blocks_out, below_floor>>

\* exec_for_block, lines 668-673: the floors of the originations seen, then Ok
Return ==
    /\ stack # <<>> /\ Top.pc = "post"
    /\ LET f == Top
           origs == {r \in f.results : r.is_origination}
           cs == update_contract_floor(contracts, f.results)
           rest == SubSeq(stack, 1, Len(stack) - 1)
       IN /\ contracts' = cs
          /\ level_floor' = IF origs = {} THEN level_floor
                            ELSE update_level_floor(cs, all_contracts, level_floor)
          /\ IF rest = <<>>
             THEN /\ stack' = <<>>
                  /\ ret' = Ret("ok", f.meta.level)
                  /\ processed_levels' = IF call.cleanup /\ ~call.repeat /\ phase # "hist"
                                         THEN Append(processed_levels, f.meta.level)
                                         ELSE processed_levels
             ELSE /\ stack' = [rest EXCEPT ![Len(rest)] = [@ EXCEPT !.pc = "tx"]]
                  /\ ret' = ret
                  /\ processed_levels' = processed_levels
    /\ UNCHANGED <<schemaVars, nodeVars, modeVars, db, phase, all_contracts, selector, levels_in, workers,
                   blocks_out, budget, call, below_floor>>

\* The steps of exec_for_block
ExecSteps ==
    \/ Check
    \/ Reprocess
    \/ Overflow
    \/ \E fail \in 0..(Cardinality(Contracts) + 1) : Transact(fail)
    \/ Return

\* ------------------------------------------------------------------ block ingestion
\* Any levels, fetched at any time, are ingested by read_block_chan in any order, or
\* by exec_level directly, while the node's chain may be reorganised.
Budget(calls, fails, track) == [calls |-> calls, fails |-> fails, track |-> track]

Init ==
    /\ NoSchema
    /\ origin \in [Contracts -> {MaxLevel - 1, MaxLevel + 1}]
    /\ \E stored \in SUBSET Levels : InitWith(stored, Budget(MaxCalls, 0, FALSE))

Next ==
    \/ \E k \in Levels : Reorg(k)
    \/ \E c \in Contracts : AddContract(c)
    \/ SetupDone
    \/ \E l \in Levels : FetchBlock(l)
    \/ RecvBlock
    \/ \E l \in Levels : ExecLevel(l)
    \/ ExecSteps

Spec == Init /\ [][Next]_vars

\* ------------------------------------------------------------------ per-block persistence
\* As block ingestion, with a step of the transaction allowed to fail, the block of a
\* call that returned Ok run once more, and the DB of each call's start recorded.
MaxFail == 1

InitPersist ==
    /\ NoSchema
    /\ origin \in [Contracts -> {MaxLevel - 1, MaxLevel + 1}]
    /\ \E stored \in SUBSET Levels : InitWith(stored, Budget(MaxCalls - 1, MaxFail, TRUE))

NextPersist ==
    \/ \E k \in Levels : Reorg(k)
    \/ \E c \in Contracts : AddContract(c)
    \/ SetupDone
    \/ \E l \in Levels : FetchBlock(l)
    \/ RecvBlock
    \/ \E l \in Levels : ExecLevel(l)
    \/ RepeatBlock
    \/ ExecSteps

SpecPersist == InitPersist /\ [][NextPersist]_vars

\* ------------------------------------------------------------------ exec_parallel
\* The lists of levels exec_levels is given
RECURSIVE SeqsUpTo(_)
SeqsUpTo(n) ==
    IF n = 0 THEN {<<>>}
    ELSE LET shorter == SeqsUpTo(n - 1)
         IN shorter \cup {Append(q, l) : q \in shorter, l \in Levels}
LevelLists == SeqsUpTo(MaxList) \ {<<>>}

\* Executor::exec_levels: exec_parallel spawns the workers and the selector thread
ExecLevels(levels) ==
    /\ phase = "ready"
    /\ phase' = "par"
    /\ selector' = [levels |-> levels, todo |-> levels, pending |-> 0, done |-> FALSE,
                    sent |-> <<>>]
    /\ derived' = pass_begun(derived)
    /\ UNCHANGED <<schemaVars, nodeVars, cont, missing, hist, db, execVars, stack, ret,
                   levels_in, workers, blocks_out, processed_levels, budget, call,
                   below_floor>>

\* exec_levels, the selector's `l < level_floor.get()`
selector_drops_le(have_floor, l, floor) == have_floor /\ l <= floor
selector_drops(have_floor, l, floor) == have_floor /\ l < floor

\* exec_levels, lines 318-323: the selector takes the next level and drops it or
\* goes on to send it
SelectorTake ==
    /\ phase = "par" /\ selector.todo # <<>> /\ selector.pending = 0
    /\ LET l == Head(selector.todo)
       IN IF selector_drops(~all_contracts, l, level_floor)
          THEN /\ selector' = [selector EXCEPT !.todo = Tail(@)]
               /\ below_floor' = below_floor
          ELSE /\ selector' = [selector EXCEPT !.todo = Tail(@), !.pending = l]
               /\ below_floor' = Logged(l, "selector")
    /\ UNCHANGED <<schemaVars, nodeVars, modeVars, db, phase, execVars, stack, ret, levels_in, workers,
                   blocks_out, processed_levels, budget, call>>

\* exec_levels, line 322: height_chan.send(l) returns once levels_in has room
SelectorSend ==
    /\ phase = "par" /\ selector.pending # 0 /\ ~ChanFull(levels_in)
    /\ levels_in' = Append(levels_in, selector.pending)
    /\ selector' = [selector EXCEPT !.pending = 0, !.sent = Append(@, selector.pending)]
    /\ UNCHANGED <<schemaVars, nodeVars, modeVars, db, phase, execVars, stack, ret, workers, blocks_out,
                   processed_levels, budget, call, below_floor>>

\* The selector returns and drops height_send: levels_in is closed
SelectorExit ==
    /\ phase = "par" /\ selector.todo = <<>> /\ selector.pending = 0 /\ ~selector.done
    /\ selector' = [selector EXCEPT !.done = TRUE]
    /\ UNCHANGED <<schemaVars, nodeVars, modeVars, db, phase, execVars, stack, ret, levels_in, workers,
                   blocks_out, processed_levels, budget, call, below_floor>>

\* A worker takes a level from levels_in and fetches its block from the node
WorkerFetch(w) ==
    /\ phase = "par" /\ workers[w].st = "idle" /\ levels_in # <<>>
    /\ workers' = [workers EXCEPT ![w] = [st |-> "send", block |-> level_json(Head(levels_in))]]
    /\ levels_in' = recv(levels_in)
    /\ UNCHANGED <<schemaVars, nodeVars, modeVars, db, phase, execVars, stack, ret, selector, blocks_out,
                   processed_levels, budget, call, below_floor>>

\* A worker's send of its block returns once blocks_out has room
WorkerSend(w) ==
    /\ phase = "par" /\ workers[w].st = "send" /\ ~ChanFull(blocks_out)
    /\ blocks_out' = Append(blocks_out, workers[w].block)
    /\ workers' = [workers EXCEPT ![w] = IdleWorker]
    /\ UNCHANGED <<schemaVars, nodeVars, modeVars, db, phase, execVars, stack, ret, selector, levels_in,
                   processed_levels, budget, call, below_floor>>

\* exec_parallel, line 429: levels_in is closed once the selector's closure has
\* returned and dropped height_send
closed_never(sel) == FALSE
closed(sel) == sel.done

\* A worker finds levels_in closed and empty, and ends
WorkerExit(w) ==
    /\ phase = "par" /\ workers[w].st = "idle" /\ levels_in = <<>> /\ closed(selector)
    /\ workers' = [workers EXCEPT ![w] = [st |-> "done", block |-> NoBlock]]
    /\ UNCHANGED <<schemaVars, nodeVars, modeVars, db, phase, execVars, stack, ret, selector, levels_in,
                   blocks_out, processed_levels, budget, call, below_floor>>

\* exec_parallel, lines 431-439: read_block_chan found blocks_out closed and empty,
\* the threads are joined and the derived tables repopulated
ParallelDone ==
    /\ phase = "par" /\ stack = <<>> /\ blocks_out = <<>>
    /\ \A w \in DOMAIN workers : workers[w].st = "done"
    /\ phase' = IF missing.pc = "pass" THEN "missing" ELSE "done"
    /\ missing' = IF missing.pc = "pass" THEN [missing EXCEPT !.pc = "loop"] ELSE missing
    /\ derived' = derived_repopulated(derived)
    /\ UNCHANGED <<schemaVars, nodeVars, cont, hist, db, execVars, stack, ret,
                   pipeVars, blocks_out, budget, call, below_floor>>

InitPar ==
    /\ NoSchema
    /\ origin \in [Contracts -> {MaxLevel - 1, MaxLevel + 1}]
    /\ \E stored \in SUBSET Levels : InitWith(stored, Budget(MaxList, 0, FALSE))

NextPar ==
    \/ \E k \in Levels : Reorg(k)
    \/ \E c \in Contracts : AddContract(c)
    \/ IndexAllContracts
    \/ SetupDone
    \/ \E levels \in LevelLists : ExecLevels(levels)
    \/ SelectorTake
    \/ SelectorSend
    \/ SelectorExit
    \/ \E w \in Workers : WorkerFetch(w)
    \/ \E w \in Workers : WorkerSend(w)
    \/ \E w \in Workers : WorkerExit(w)
    \/ RecvBlock
    \/ ExecSteps
    \/ ParallelDone

SpecPar == InitPar /\ [][NextPar]_vars

\* exec_parallel with a pool of MaxWorkers workers: the node's chain stays as it is
\* and every fetch and every transaction succeeds
MaxWorkers == 2
Pool == 1..MaxWorkers
\* The lists exec_levels is given: the short ones, and two longer than both channels
PoolLists == LevelLists \cup {<<1, 2, 3, 2, 3>>, <<3, 2, 1, 3, 2, 1>>}
MaxPoolCalls == 6

InitPool ==
    /\ NoSchema
    /\ origin \in [Contracts -> {MaxLevel - 1, MaxLevel + 1}]
    /\ \E stored \in {{}, {1}} :
           InitOf(stored, Budget(MaxPoolCalls, 0, FALSE), MaxLevel, Pool)

NextPool ==
    \/ \E c \in Contracts : AddContract(c)
    \/ SetupDone
    \/ \E levels \in PoolLists : ExecLevels(levels)
    \/ SelectorTake
    \/ SelectorSend
    \/ SelectorExit
    \/ \E w \in Pool : WorkerFetch(w)
    \/ \E w \in Pool : WorkerSend(w)
    \/ \E w \in Pool : WorkerExit(w)
    \/ RecvBlock
    \/ Check
    \/ Transact(0)
    \/ Return
    \/ ParallelDone

SpecPool == InitPool /\ [][NextPool]_vars

\* The threads of exec_parallel are scheduled: while some thread can take a step,
\* a step is taken
FairPool == SpecPool /\ WF_vars(NextPool)

\* ------------------------------------------------------------------ exec_continuous
\* DBClient::get_head: the levels row of the highest level, if any
get_head(d) == {r \in d.levels : \A q \in d.levels : q.level <= r.level}

\* NodeClient::head: the node's head block
node_head == level_json(head)

\* The node bakes the next block
NewBlock ==
    /\ head < MaxLevel
    /\ head' = head + 1
    /\ UNCHANGED <<schemaVars, chain, nver, origin, cont, missing, hist, derived, db, phase,
                   execVars, stack, ret, pipeVars, blocks_out, budget, call,
                   below_floor>>

\* main: exec_continuous is entered
ContStart ==
    /\ phase = "ready"
    /\ phase' = "cont"
    /\ cont' = [NoCont EXCEPT !.pc = "loop"]
    /\ UNCHANGED <<schemaVars, nodeVars, missing, hist, derived, db, execVars, stack, ret,
                   pipeVars, blocks_out, budget, call, below_floor>>

\* Executor::repopulate_derived_tables, as exec_continuous calls it once a level
\* was deleted
repopulate_derived_tables_skipped(c) == c
repopulate_derived_tables(c) == [c EXCEPT !.repopulated = @ + 1]
ContCmp_no_hash(c, d) ==
    IF c.level > d.level THEN "greater"
    ELSE IF c.level < d.level THEN "less"
    ELSE "same"
\* exec_continuous, lines 260 and 287-306: chain_head.level against db_head.level
ContCmp(c, d) ==
    IF c.level > d.level THEN "greater"
    ELSE IF c.level < d.level THEN "less"
    ELSE IF d.hash # c.hash THEN "differ" ELSE "same"

\* exec_continuous, line 262: the first level of a pass
pass_first_head(d) == d.level
pass_first(d) == d.level + 1

\* exec_continuous, lines 246-257: with no level in the DB the chain head is
\* ingested in all-contracts mode, and the call fails otherwise
empty_db_ingests_always(allc) == TRUE
empty_db_ingests(allc) == allc

\* exec_continuous, lines 241-306, the top of the loop: both heads are read, and
\* a pass is begun, or the DB head deleted, or nothing done but wait
ContLoop ==
    /\ phase = "cont" /\ cont.pc = "loop" /\ stack = <<>>
    /\ IF get_head(db) = {}
       THEN IF empty_db_ingests(all_contracts)
            THEN /\ budget.calls > 0
                 /\ stack' = <<Frame(node_head, FALSE)>>
                 /\ call' = NewCall(node_head, FALSE, FALSE)
                 /\ ret' = Ret("none", 0)
                 /\ budget' = [budget EXCEPT !.calls = @ - 1]
                 /\ cont' = [cont EXCEPT !.pc = "first", !.chain_head = node_head,
                                         !.db_head = 0, !.pass = <<>>]
                 /\ UNCHANGED <<db, phase, derived>>
            ELSE /\ phase' = "failed"
                 /\ ret' = Ret("err", 0)
                 /\ cont' = [cont EXCEPT !.pc = "exit"]
                 /\ UNCHANGED <<db, stack, call, budget, derived>>
       ELSE LET db_head == CHOOSE r \in get_head(db) : TRUE
                cmp == ContCmp(node_head, db_head)
                seen == [cont EXCEPT !.chain_head = node_head, !.db_head = db_head.level,
                                     !.pass = <<>>]
            IN /\ cont' = IF cmp = "greater"
                          THEN [seen EXCEPT !.pc = "pass", !.level = pass_first(db_head),
                                            !.last = node_head.level]
                          ELSE IF cmp = "differ"
                          THEN [repopulate_derived_tables(seen)
                                    EXCEPT !.pc = "wait"]
                          ELSE [seen EXCEPT !.pc = "wait"]
               /\ db' = IF cmp = "differ" THEN delete_level(db, db_head.level) ELSE db
               /\ derived' = IF cmp = "greater" THEN pass_begun(derived)
                             ELSE IF cmp = "differ"
                             THEN derived_repopulated(rolled_back(derived))
                             ELSE derived
               /\ UNCHANGED <<phase, stack, call, ret, budget>>
    /\ UNCHANGED <<schemaVars, nodeVars, missing, hist, execVars, pipeVars,
                   blocks_out, below_floor>>

\* exec_continuous, wait(): the sleep of one second is over
ContWake ==
    /\ phase = "cont" /\ cont.pc = "wait"
    /\ cont' = [cont EXCEPT !.pc = "loop"]
    /\ UNCHANGED <<schemaVars, nodeVars, missing, hist, derived, db, phase, execVars, stack,
                   ret, pipeVars, blocks_out, budget, call, below_floor>>

\* exec_continuous, line 263: exec_level(level, false, true) for the next level of
\* the pass
ContExec ==
    /\ phase = "cont" /\ cont.pc = "pass" /\ stack = <<>> /\ budget.calls > 0
    /\ stack' = <<Frame(level_json(cont.level), FALSE)>>
    /\ call' = NewCall(level_json(cont.level), FALSE, FALSE)
    /\ ret' = Ret("none", 0)
    /\ budget' = [budget EXCEPT !.calls = @ - 1]
    /\ cont' = [cont EXCEPT !.pc = "exec"]
    /\ UNCHANGED <<schemaVars, nodeVars, missing, hist, derived, db, phase, execVars,
                   pipeVars, blocks_out, below_floor>>

\* exec_continuous, lines 245-250 and 263-283: what the loop does with the result
\* of exec_level
ContResult ==
    /\ phase = "cont" /\ cont.pc \in {"exec", "first"} /\ stack = <<>>
    /\ ret.kind # "none"
    /\ IF ret.kind = "ok"
       THEN /\ cont' = IF cont.pc = "first" THEN [cont EXCEPT !.pc = "loop"]
                       ELSE IF cont.level = cont.last
                       THEN [cont EXCEPT !.pc = "loop", !.pass = Append(@, cont.level)]
                       ELSE [cont EXCEPT !.pc = "pass", !.pass = Append(@, cont.level),
                                         !.level = @ + 1]
            /\ UNCHANGED <<db, phase, derived>>
       ELSE IF ret.kind = "bad" /\ cont.pc = "exec"
       THEN /\ db' = delete_level(db, ret.level)
            /\ cont' = [repopulate_derived_tables(cont) EXCEPT !.pc = "loop"]
            /\ derived' = derived_repopulated(rolled_back(derived))
            /\ phase' = phase
       ELSE /\ phase' = "failed"
            /\ cont' = [cont EXCEPT !.pc = "exit"]
            /\ db' = db
            /\ derived' = derived
    /\ UNCHANGED <<schemaVars, nodeVars, missing, hist, execVars, stack, ret,
                   pipeVars, blocks_out, budget, call, below_floor>>

InitCont ==
    /\ NoSchema
    /\ origin \in [Contracts -> {MaxLevel - 1, MaxLevel + 1}]
    /\ \E stored \in SUBSET Levels : \E h \in Levels :
           InitAt(stored, Budget(MaxCalls, MaxFail, FALSE), h)

NextCont ==
    \/ \E k \in Levels : Reorg(k)
    \/ NewBlock
    \/ \E c \in Contracts : AddContract(c)
    \/ IndexAllContracts
    \/ SetupDone
    \/ ContStart
    \/ ContLoop
    \/ ContWake
    \/ ContExec
    \/ ContResult
    \/ Check
    \/ \E fail \in 0..(Cardinality(Contracts) + 1) : Transact(fail)
    \/ Return

SpecCont == InitCont /\ [][NextCont]_vars

\* exec_continuous with every transaction succeeding, and calls enough for every
\* level to be ingested, rolled back and ingested again after each reorganisation
ContCalls == MaxLevel * (MaxReorgs + 2) + 1

InitConv ==
    /\ NoSchema
    /\ origin \in [Contracts -> {MaxLevel - 1, MaxLevel + 1}]
    /\ \E stored \in SUBSET Levels : \E h \in Levels :
           InitAt(stored, Budget(ContCalls, 0, FALSE), h)

\* The steps of exec_continuous itself
ContSteps ==
    \/ ContLoop
    \/ ContWake
    \/ ContExec
    \/ ContResult
    \/ Check
    \/ Transact(0)
    \/ Return

NextConv ==
    \/ \E k \in Levels : Reorg(k)
    \/ NewBlock
    \/ \E c \in Contracts : AddContract(c)
    \/ IndexAllContracts
    \/ SetupDone
    \/ ContStart
    \/ ContSteps

SpecConv == InitConv /\ [][NextConv]_vars

\* exec_continuous keeps running; the node may stop changing its chain at any time
FairConv == SpecConv /\ WF_vars(ContSteps)

\* ------------------------------------------------------------------ exec_missing_levels
MaxPasses == 2

\* DBClient::get_missing_levels: the levels up to upto that lack a contract_levels
\* row of some tracked contract
get_missing_levels(d, cs, upto) ==
    {l \in 1..upto : \E c \in cs : <<c, l>> \notin d.clevels}

\* The levels of a set, in increasing order
RECURSIVE Ascending(_)
Ascending(S) == IF S = {} THEN <<>> ELSE <<MinOf(S)>> \o Ascending(S \ {MinOf(S)})

\* exec_missing_levels, line 392: the node's head, read in every pass
latest_level_first(m) == m.latest0
latest_level(m) == head

\* main: exec_missing_levels is entered
MissingStart ==
    /\ phase = "ready"
    /\ phase' = "missing"
    /\ missing' = [NoMissing EXCEPT !.pc = "loop", !.latest0 = head]
    /\ UNCHANGED <<schemaVars, nodeVars, cont, hist, derived, db, execVars, stack, ret,
                   pipeVars, blocks_out, budget, call, below_floor>>

\* exec_missing_levels, lines 391-407, one turn of the loop: with no level missing
\* exec_dependents is run (no dependent level is reported) and the call returns,
\* otherwise exec_levels is run on the missing levels
MissingLoop ==
    /\ phase = "missing" /\ missing.pc = "loop"
    /\ LET ml == get_missing_levels(db, DOMAIN contracts, latest_level(missing))
       IN IF ml = {}
          THEN /\ missing' = [missing EXCEPT !.pc = "returned", !.dependents = @ + 1]
               /\ phase' = IF hist.pc = "missing" THEN "hist" ELSE "done"
               /\ hist' = IF hist.pc = "missing" THEN [hist EXCEPT !.pc = "loop"] ELSE hist
               /\ derived' = pass_begun(derived)
               /\ UNCHANGED <<selector, levels_in, workers, processed_levels>>
          ELSE /\ missing.passes < MaxPasses
               /\ missing' = [missing EXCEPT !.pc = "pass", !.passes = @ + 1,
                                             !.reported = ml]
               /\ phase' = "par"
               /\ hist' = hist
               /\ selector' = [levels |-> Ascending(ml), todo |-> Ascending(ml),
                               pending |-> 0, done |-> FALSE, sent |-> <<>>]
               /\ levels_in' = <<>>
               /\ workers' = [w \in DOMAIN workers |-> IdleWorker]
               /\ processed_levels' = <<>>
               /\ derived' = pass_begun(derived)
    /\ UNCHANGED <<schemaVars, nodeVars, cont, db, execVars, stack, ret,
                   blocks_out, budget, call, below_floor>>

InitMissing ==
    /\ NoSchema
    /\ origin \in [Contracts -> {MaxLevel - 1, MaxLevel + 1}]
    /\ \E stored \in SUBSET Levels : \E h \in Levels :
           InitAt(stored, Budget(MaxCalls, 0, FALSE), h)

NextMissing ==
    \/ \E k \in Levels : Reorg(k)
    \/ NewBlock
    \/ \E c \in Contracts : AddContract(c)
    \/ SetupDone
    \/ MissingStart
    \/ MissingLoop
    \/ SelectorTake
    \/ SelectorSend
    \/ SelectorExit
    \/ \E w \in Workers : WorkerFetch(w)
    \/ \E w \in Workers : WorkerSend(w)
    \/ \E w \in Workers : WorkerExit(w)
    \/ RecvBlock
    \/ ExecSteps
    \/ ParallelDone

SpecMissing == InitMissing /\ [][NextMissing]_vars

\* ------------------------------------------------------------------ all-contracts mode
\* Blocks of any levels are ingested by read_block_chan, in all-contracts mode or
\* for the configured contracts, the transactions failing at times.
InitAll ==
    /\ NoSchema
    /\ origin \in [Contracts -> {MaxLevel - 1, MaxLevel + 1}]
    /\ \E stored \in SUBSET Levels : InitWith(stored, Budget(MaxCalls, MaxFail, FALSE))

NextAll ==
    \/ \E k \in Levels : Reorg(k)
    \/ \E c \in Contracts : AddContract(c)
    \/ IndexAllContracts
    \/ SetupDone
    \/ \E l \in Levels : FetchBlock(l)
    \/ RecvBlock
    \/ ExecSteps

SpecAll == InitAll /\ [][NextAll]_vars

\* ------------------------------------------------------------------ exec_new_contracts_historically
\* The contracts whose schema was just created are ingested from the levels an
\* indexer (BCD) lists for them, one contract after the other.

\* DBClient::fill_in_levels: every level between the lowest and the highest stored
\* level gets a contract_levels row of the contract
fill_in_levels(d, c) ==
    LET ls == {r.level : r \in d.levels}
    IN IF ls = {} THEN d
       ELSE [d EXCEPT !.clevels =
                @ \cup {<<c, l>> : l \in {x \in Levels : /\ \E m \in ls : m <= x
                                                         /\ \E m \in ls : x <= m}}]

\* The contracts of a set, one after the other
RECURSIVE InTurn(_)
InTurn(S) ==
    IF S = {} THEN <<>>
    ELSE LET c == CHOOSE x \in S : TRUE IN <<c>> \o InTurn(S \ {c})

\* main: exec_new_contracts_historically is entered (with bcd_settings)
HistStart ==
    /\ phase = "ready"
    /\ phase' = "hist"
    /\ hist' = [NoHist EXCEPT !.pc = "loop"]
    /\ UNCHANGED <<schemaVars, nodeVars, cont, missing, derived, db, execVars, stack, ret,
                   pipeVars, blocks_out, budget, call, below_floor>>

\* exec_new_contracts_historically, lines 334-341 and 384-387, the top of the loop:
\* create_contract_schemas names the contracts whose schema is new (none once the
\* schemas exist); with none the loop is left, exec_dependents is run when res is
\* not empty (no dependent level is reported) and the call returns
HistLoop(new) ==
    /\ phase = "hist" /\ hist.pc = "loop"
    /\ new \subseteq DOMAIN contracts
    /\ hist.rounds > 0 => new = {}
    /\ IF new = {}
       THEN /\ hist' = [hist EXCEPT !.pc = "returned"]
            /\ phase' = "done"
            /\ derived' = pass_begun(derived)
       ELSE /\ hist' = [hist EXCEPT !.pc = "contract", !.rounds = @ + 1,
                                    !.todo = InTurn(new), !.res = @ \cup new]
            /\ phase' = phase
            /\ derived' = derived
    /\ UNCHANGED <<schemaVars, nodeVars, cont, missing, db, execVars, stack, ret,
                   pipeVars, blocks_out, budget, call, below_floor>>

\* exec_new_contracts_historically, lines 358-364: exec_parallel is begun on the
\* levels of the next contract
HistParallel ==
    /\ phase = "hist" /\ hist.pc = "contract" /\ hist.todo # <<>>
    /\ phase' = "par"
    /\ hist' = [hist EXCEPT !.pc = "par"]
    /\ derived' = pass_begun(derived)
    /\ processed_levels' = <<>>
    /\ UNCHANGED <<schemaVars, nodeVars, cont, missing, db, execVars, stack, ret,
                   selector, levels_in, workers, blocks_out, budget, call, below_floor>>

\* populate_levels_chan and the workers: a block of a level BCD lists reaches
\* blocks_out
HistFetch(l) ==
    /\ phase = "par" /\ hist.pc = "par" /\ ret.kind # "overflow"
    /\ ~ChanFull(blocks_out)
    /\ budget.calls > Len(blocks_out) + 1
    /\ blocks_out' = Append(blocks_out, level_json(l))
    /\ UNCHANGED <<schemaVars, nodeVars, modeVars, db, phase, execVars, stack, ret,
                   pipeVars, budget, call, below_floor>>

\* exec_parallel, lines 431-439: read_block_chan found blocks_out closed and empty,
\* the threads are joined and the derived tables repopulated
HistParallelDone ==
    /\ phase = "par" /\ hist.pc = "par" /\ Idle /\ blocks_out = <<>>
    /\ phase' = "hist"
    /\ hist' = [hist EXCEPT !.pc = "implicit"]
    /\ derived' = derived_repopulated(derived)
    /\ UNCHANGED <<schemaVars, nodeVars, cont, missing, db, execVars, stack, ret,
                   pipeVars, blocks_out, budget, call, below_floor>>

\* exec_new_contracts_historically, lines 374-377: fill_in_levels, and the next
\* contract or the top of the loop
HistNext(h) ==
    [h EXCEPT !.todo = Tail(@),
              !.pc = IF Tail(h.todo) = <<>> THEN "loop" ELSE "contract"]

\* exec_new_contracts_historically, lines 368-375: get_implicit_origination_level
\* gives no level (l = 0) and fill_in_levels follows, or it gives the level l and
\* exec_level(l, true, false) is called
HistImplicit(l) ==
    /\ phase = "hist" /\ hist.pc = "implicit"
    /\ IF l = 0
       THEN /\ db' = fill_in_levels(db, Head(hist.todo))
            /\ hist' = HistNext(hist)
            /\ UNCHANGED <<stack, call, ret, budget>>
       ELSE /\ budget.calls > 0
            /\ stack' = <<Frame(level_json(l), TRUE)>>
            /\ call' = NewCall(level_json(l), TRUE, FALSE)
            /\ ret' = Ret("none", 0)
            /\ budget' = [budget EXCEPT !.calls = @ - 1]
            /\ hist' = [hist EXCEPT !.pc = "direct"]
            /\ db' = db
    /\ UNCHANGED <<schemaVars, nodeVars, cont, missing, derived, phase, execVars,
                   pipeVars, blocks_out, below_floor>>

\* exec_new_contracts_historically, lines 371-375: exec_level returned Ok, and
\* fill_in_levels follows
HistFill ==
    /\ phase = "hist" /\ hist.pc = "direct" /\ stack = <<>> /\ ret.kind = "ok"
    /\ db' = fill_in_levels(db, Head(hist.todo))
    /\ hist' = [HistNext(hist) EXCEPT !.reprocessed = derived.stale]
    /\ UNCHANGED <<schemaVars, nodeVars, cont, missing, derived, phase, execVars, stack,
                   ret, pipeVars, blocks_out, budget, call, below_floor>>

MaxHistCalls == 4

InitHist ==
    /\ NoSchema
    /\ origin \in [Contracts -> {MaxLevel - 1, MaxLevel + 1}]
    /\ \E stored \in SUBSET Levels : InitWith(stored, Budget(MaxHistCalls, 0, FALSE))

NextHist ==
    \/ \E k \in Levels : Reorg(k)
    \/ \E c \in Contracts : AddContract(c)
    \/ SetupDone
    \/ HistStart
    \/ \E new \in SUBSET Contracts : HistLoop(new)
    \/ HistParallel
    \/ \E l \in Levels : HistFetch(l)
    \/ RecvBlock
    \/ ExecSteps
    \/ HistParallelDone
    \/ \E l \in 0..MaxLevel : HistImplicit(l)
    \/ HistFill

SpecHist == InitHist /\ [][NextHist]_vars

\* ------------------------------------------------------------------ dependency contracts
\* exec_new_contracts_historically without bcd_settings: every turn of its loop adds
\* the dependency contracts the DB names and runs exec_missing_levels for the
\* contracts whose schema is new. The node's head and chain stay as they are and no
\* transaction fails.
Deps == {"B"}

\* DBClient::get_config_deps: the contracts the stored rows of the tracked contracts
\* depend on
get_config_deps(d, config) ==
    {c \in Deps : \E r \in d.rows : r.contract \in config \ {c}}

\* Executor::add_dependency_contracts: add_contract for every dependency
add_dependency_contracts(cs, d) ==
    add_missing_contracts(cs, d, get_config_deps(d, DOMAIN cs))

\* exec_new_contracts_historically, lines 334-341 and 380-387 (bcd_settings is None):
\* add_dependency_contracts, then create_contract_schemas names the contracts whose
\* schema is new (after the first turn: those registered since); with none the
\* call returns, otherwise exec_missing_levels is entered
HistLoopMissing(new) ==
    /\ phase = "hist" /\ hist.pc = "loop"
    /\ LET cs == add_dependency_contracts(contracts, db)
       IN /\ new \subseteq DOMAIN cs
          /\ hist.rounds > 0 => new = DOMAIN cs \ hist.seen
          /\ contracts' = cs
          /\ IF new = {}
             THEN /\ hist' = [hist EXCEPT !.pc = "returned", !.seen = DOMAIN cs]
                  /\ phase' = "done"
                  /\ missing' = missing
                  /\ derived' = pass_begun(derived)
             ELSE /\ hist' = [hist EXCEPT !.pc = "missing", !.rounds = @ + 1,
                                          !.res = @ \cup new, !.seen = DOMAIN cs]
                  /\ phase' = "missing"
                  /\ missing' = [NoMissing EXCEPT !.pc = "loop", !.latest0 = head]
                  /\ derived' = derived
    /\ UNCHANGED <<schemaVars, nodeVars, cont, db, all_contracts, level_floor, stack, ret,
                   pipeVars, blocks_out, budget, call, below_floor>>

MaxDepCalls == 6

InitDeps ==
    /\ NoSchema
    /\ origin \in [Contracts \cup Deps -> {1, MaxLevel - 1, MaxLevel}]
    /\ \E stored \in SUBSET Levels : InitWith(stored, Budget(MaxDepCalls, 0, FALSE))

NextDeps ==
    \/ \E c \in Contracts : AddContract(c)
    \/ SetupDone
    \/ HistStart
    \/ \E new \in SUBSET (Contracts \cup Deps) : HistLoopMissing(new)
    \/ MissingLoop
    \/ SelectorTake
    \/ SelectorSend
    \/ SelectorExit
    \/ \E w \in Workers : WorkerFetch(w)
    \/ \E w \in Workers : WorkerSend(w)
    \/ \E w \in Workers : WorkerExit(w)
    \/ RecvBlock
    \/ Check
    \/ Transact(0)
    \/ Return
    \/ ParallelDone

SpecDeps == InitDeps /\ [][NextDeps]_vars

\* ------------------------------------------------------------------ schema building
\* get_rel_ast: the schema of a storage type is built by a new ASTBuilder
BuildSchema ==
    /\ ~built.done
    /\ built' = [done |-> TRUE, res |-> build_relational_ast(NewBuilder, ContextInit, type_ast)]
    /\ UNCHANGED <<type_ast, nodeVars, modeVars, db, phase, execVars, stack, ret, pipeVars,
                   blocks_out, budget, call, below_floor>>

InitSchema ==
    /\ type_ast \in EleInputs
    /\ built = NoBuilt
    /\ origin = [c \in Contracts |-> MaxLevel + 1]
    /\ InitWith({}, Budget(0, 0, FALSE))

NextSchema == BuildSchema

SpecSchema == InitSchema /\ [][NextSchema]_vars

\* The same over the storage types of every shape
InitShapes ==
    /\ type_ast \in ShapeInputs
    /\ built = NoBuilt
    /\ origin = [c \in Contracts |-> MaxLevel + 1]
    /\ InitWith({}, Budget(0, 0, FALSE))

NextShapes == BuildSchema

SpecShapes == InitShapes /\ [][NextShapes]_vars

\* ------------------------------------------------------------------ the claims
\* What exec_for_block has on its hands in the state after its hash-chain check
TopLevel == stack[1].meta.level
StoredHash(l) == {r.hash : r \in get_level(db, l)}
StoredPrevHash(l) == {r.prev_hash : r \in get_level(db, l)}

\* C1: after any sequence of block ingestions, every two adjacent levels of the levels
\* table agree: levels[L+1].prev_hash = levels[L].hash.
C1_HashChainInvariant == stack = <<>> => ChainOK(db)

\* C2: a block whose prev_hash disagrees with the stored levels[L-1].hash, ingested
\* with cleanup_on_reorg into a DB whose levels agreed, has L-1 reprocessed, and once
\* its ingestion has returned every two adjacent levels of the DB agree.
C2_ReorgRecovery ==
    (stack = <<>> /\ ret.kind = "ok" /\ call.cleanup /\ call.chk = "prev" /\ call.ok0)
        => ChainOK(db)

\* C8: blocks of one chain that was never reorganised, arriving in any order, raise no
\* BadLevelHash, are all stored, and leave a levels table that holds the node's own
\* blocks, each agreeing with its predecessor.
C8_ArrivalOrder ==
    nver = 0 =>
        /\ call.chk \in {"none", "ok"}
        /\ ret.kind \in {"none", "ok"}
        /\ \A r \in db.levels : r = level_json(r.level)
        /\ \A i \in 1..Len(processed_levels) :
               level_json(processed_levels[i]) \in db.levels
        /\ ChainOK(db)

C8_Witness ==
    /\ nver = 0
    /\ processed_levels = <<3, 1, 2>>
    /\ {r.level : r \in db.levels} = {1, 2, 3}

\* C9: the hash-chain check of a block of level L succeeds iff the stored L-1, if any,
\* has hash = block.prev_hash and the stored L+1, if any, has prev_hash = block.hash;
\* a mismatch is a BadLevelHash naming the disagreeing neighbour, which without
\* cleanup_on_reorg is returned; the check writes nothing.
C9_HashCheck ==
    [][(stack # <<>> /\ Top.pc = "check" /\ stack' # stack) =>
        LET m == Top.meta
            prev_ok == StoredHash(m.level - 1) \subseteq {m.prev_hash}
            next_ok == StoredPrevHash(m.level + 1) \subseteq {m.hash}
            bad == IF ~prev_ok THEN m.level - 1 ELSE m.level + 1
        IN /\ db' = db
           /\ (prev_ok /\ next_ok) <=> (stack' # <<>> /\ stack'[Len(stack)].pc = "tx")
           /\ (~(prev_ok /\ next_ok) /\ ~Top.cleanup) =>
                  stack' = <<>> /\ ret' = Ret("bad", bad)
           /\ (~(prev_ok /\ next_ok) /\ Top.cleanup) =>
                  /\ stack' # <<>>
                  /\ stack'[Len(stack)].pc = "call"
                  /\ stack'[Len(stack)].bad = bad]_vars

C9_Witness ==
    /\ stack = <<>> /\ ret = Ret("bad", call.block.level + 1)
    /\ ~call.cleanup /\ call.chk = "next"
    /\ get_level(db, call.block.level - 1) # {}

\* The case of C10: a block for a stored level L, with another hash, is ingested with
\* cleanup_on_reorg while L-1 and L+1 are stored, and the check has found a mismatch.
C10_Case ==
    /\ Len(stack) = 1 /\ Top.pc = "call"
    /\ StoredHash(TopLevel) # {} /\ Top.meta.hash \notin StoredHash(TopLevel)
    /\ StoredHash(TopLevel - 1) # {} /\ StoredHash(TopLevel + 1) # {}

LevelView(d, l) ==
    [level |-> get_level(d, l),
     clevels |-> {x \in d.clevels : x[2] = l},
     orig |-> {c \in Contracts : d.orig[c] = l},
     txs |-> {t.contract : t \in {u \in d.txs : u.level = l}},
     ntxs |-> Cardinality({u \in d.txs : u.level = l}),
     rows |-> {r.contract : r \in {u \in d.rows : u.level = l}},
     nrows |-> Cardinality({u \in d.rows : u.level = l})]

C4_AsClaimed == (stack = <<>> /\ ret.kind \in {"bad", "err"}) => db = call.db0

\* C4, amended: the step at which exec_for_block fails leaves the DB as it was when the
\* failing block's transaction was opened, so nothing of that block is persisted;
\* without cleanup_on_reorg that is the DB of before the call, with it the levels
\* reprocessed by the nested exec_level calls that committed before stay committed.
C4_NoPartialBlock ==
    [][/\ (stack # <<>> /\ stack' = <<>> /\ ret'.kind # "ok") => db' = db
       /\ (stack' = <<>> /\ ret'.kind \in {"bad", "err"} /\ ~call'.cleanup) =>
              db' = call'.db0]_vars

C4_Witness ==
    /\ stack = <<>> /\ ret.kind = "err" /\ call.cleanup
    /\ call.chk = "prev" /\ db # call.db0
    /\ call.block \notin db.levels

\* The selector takes the next level of its list in this step
SelectorTakes == phase = "par" /\ selector'.todo # selector.todo

\* C5 as claimed: outside all-contracts mode no level below level_floor is sent to
\* the workers or fetched from the node, whatever part of the ingestion asks for it.
C5_AsClaimed == below_floor = {}

\* C5: outside all-contracts mode the selector of exec_levels drops a requested
\* level exactly when it is below the level_floor it reads on taking the level, and
\* goes on to send every other level; the only fetches of a level below level_floor
\* are those of the reorg cleanup, whose exec_level never looks at the floor.
C5_SelectorFloor ==
    [][/\ SelectorTakes =>
            LET l == Head(selector.todo)
            IN (selector'.pending = 0) <=> (~all_contracts /\ l < level_floor)
       /\ \A e \in below_floor' : e.by = "reprocess"]_vars

\* C5: the list <<2, 1>> was requested, level 2 (holding the origination) was
\* processed and raised the floor, and level 1 was dropped.
C5_Witness ==
    /\ phase = "done" /\ ~all_contracts
    /\ selector.levels = <<MaxLevel - 1, 1>>
    /\ processed_levels = <<MaxLevel - 1>>
    /\ level_floor = MaxLevel - 1

\* C6: once a contract whose origination level O the DB records is registered as
\* the only contract, its origination floor is O, level_floor is O, and exec_levels
\* lets no level below O through to the workers.
C6_FloorFromRecordedOrigination ==
    \A c \in Contracts :
        (/\ phase \in {"ready", "par", "done"}
         /\ ~all_contracts
         /\ DOMAIN contracts = {c}
         /\ get_origination(db, c) # None
         /\ call = NoCall)
        => /\ contracts[c] = get_origination(db, c)
           /\ level_floor = contracts[c]
           /\ \A i \in 1..Len(levels_in) : levels_in[i] >= contracts[c]

C11_SerializedWrites ==
    [][/\ \A i \in 1..(Len(stack) - 1) : stack[i].pc = "wait"
       /\ (blocks_out # <<>> /\ blocks_out' = Tail(blocks_out)) =>
              (stack = <<>> /\ Len(stack') = 1)
       /\ db' # db =>
              /\ stack # <<>> /\ Top.pc = "tx"
              /\ stack' = <<>> \/ (Len(stack') = Len(stack) /\ stack'[Len(stack)].pc = "post")
       /\ (workers' # workers \/ selector' # selector \/ levels_in' # levels_in) => db' = db
       /\ processed_levels' # processed_levels =>
              \E l \in Levels : processed_levels' = Append(processed_levels, l)]_vars

\* C11: the consumer is about to run a block's transaction while a block is queued in
\* blocks_out and a worker holds another fetched block.
C11_Witness ==
    /\ phase = "par" /\ stack # <<>> /\ Top.pc = "tx"
    /\ blocks_out # <<>>
    /\ \E w \in Workers : workers[w].st = "send"

\* The highest level of the levels table
DbHeadLevel == (CHOOSE r \in get_head(db) : TRUE).level

\* C12: in a pass of exec_continuous begun with the chain ahead, the levels
\* db_head+1 .. chain_head are taken one at a time in increasing order: the level at
\* hand is db_head+1 plus the number of levels the pass has persisted, every level
\* the pass went through is committed before the next is fetched, and a pass that
\* runs to its end has persisted db_head+1 .. chain_head.
C12_PassInOrder ==
    [][/\ cont.pc \in {"pass", "exec"} =>
              /\ cont.chain_head.level > cont.db_head
              /\ cont.last = cont.chain_head.level
              /\ cont.level = cont.db_head + Len(cont.pass) + 1
              /\ cont.level <= cont.last
              /\ \A i \in 1..Len(cont.pass) :
                     /\ cont.pass[i] = cont.db_head + i
                     /\ get_level(db, cont.pass[i]) # {}
              /\ stack # <<>> => (Len(stack) = 1 /\ Top.meta.level = cont.level)
       /\ (cont.pc \in {"pass", "exec"} /\ db' # db /\ cont'.pc = cont.pc) =>
              db'.levels \ db.levels = {Top.meta}
       /\ (cont.pc = "exec" /\ cont'.pc = "loop" /\ ret.kind = "ok") =>
              cont'.pass = [i \in 1..(cont.last - cont.db_head) |-> cont.db_head + i]]_vars

\* C12: a pass over two levels has run to its end.
C12_Witness ==
    /\ phase = "cont" /\ cont.pc = "loop" /\ ret.kind = "ok"
    /\ Len(cont.pass) = 2
    /\ \A i \in 1..2 : get_level(db, cont.pass[i]) # {}

\* C13: when exec_level fails with BadLevelHash in a pass, the level the error names
\* is deleted, the derived tables are repopulated, the pass is abandoned with the
\* block at hand not persisted, and the loop goes on from its top, the next pass
\* beginning above the DB head of then; any other error ends exec_continuous with
\* the DB left as it is.
C13_ContinuousReorg ==
    [][/\ (cont.pc = "exec" /\ cont'.pc # "exec" /\ ret.kind = "bad") =>
              /\ db' = delete_level(db, ret.level)
              /\ get_level(db', ret.level) = {}
              /\ cont'.repopulated = cont.repopulated + 1
              /\ call.block \notin db'.levels
              /\ cont'.pc = "loop" /\ phase' = "cont" /\ stack' = <<>>
       /\ (cont.pc = "exec" /\ cont'.pc # "exec" /\ ret.kind \in {"err", "overflow"}) =>
              /\ phase' = "failed" /\ db' = db
              /\ cont'.repopulated = cont.repopulated
       /\ (cont.pc = "loop" /\ cont'.pc = "pass") =>
              /\ cont'.pass = <<>>
              /\ cont'.level = DbHeadLevel + 1]_vars

\* C13: the second level of a pass failed with BadLevelHash, and the level it named
\* (the one the pass had just persisted) is gone.
C13_Witness ==
    /\ phase = "cont" /\ cont.pc = "loop" /\ ret.kind = "bad"
    /\ Len(cont.pass) = 1 /\ ret.level = cont.pass[1]
    /\ get_level(db, ret.level) = {}
    /\ cont.repopulated = 1

\* C14: at the top of the loop with the chain not ahead of a DB that holds a level,
\* no block is ingested; the DB is left as it is when chain_head is below db_head or
\* at its level with its hash, and with another hash at the same level the DB head
\* level is deleted, the derived tables repopulated, and nothing else changes.
C14_ChainNotAhead ==
    [][(cont.pc = "loop" /\ cont'.pc # "loop" /\ get_head(db) # {}
            /\ node_head.level <= DbHeadLevel) =>
          LET d == CHOOSE r \in get_head(db) : TRUE
          IN /\ stack' = <<>> /\ cont'.pc = "wait" /\ phase' = "cont"
             /\ processed_levels' = processed_levels
             /\ IF node_head.level = d.level /\ node_head.hash # d.hash
                THEN /\ db' = delete_level(db, d.level)
                     /\ get_level(db', d.level) = {}
                     /\ \A l \in Levels \ {d.level} : get_level(db', l) = get_level(db, l)
                     /\ cont'.repopulated = cont.repopulated + 1
                ELSE /\ db' = db
                     /\ cont'.repopulated = cont.repopulated]_vars

\* C14: the heads were at the same level with different hashes, and the DB head
\* level was deleted.
C14_Witness ==
    /\ phase = "cont" /\ cont.pc = "wait"
    /\ cont.chain_head.level = cont.db_head
    /\ get_level(db, cont.db_head) = {}
    /\ cont.repopulated = 1

\* C15: every turn of the loop of exec_missing_levels takes the node's head and the
\* DB's missing levels of that moment; it hands exactly those levels to exec_levels,
\* whose consumer takes no other level from the workers, and it returns only in a turn in which no level is
\* missing up to that head; exec_dependents is run once, in that last turn.
C15_MissingLevels ==
    [][/\ (missing.pc = "loop" /\ missing'.pc = "pass") =>
              /\ get_missing_levels(db, DOMAIN contracts, head) # {}
              /\ selector'.levels =
                     Ascending(get_missing_levels(db, DOMAIN contracts, head))
              /\ phase' = "par"
       /\ (missing.pc = "loop" /\ missing'.pc = "returned") =>
              /\ get_missing_levels(db, DOMAIN contracts, head) = {}
              /\ missing'.dependents = 1
              /\ db' = db
       /\ missing.pc \in {"loop", "pass"} => missing.dependents = 0
       /\ missing.pc = "returned" => missing' = missing
       /\ (missing.pc = "pass" /\ Len(stack) = 0 /\ Len(stack') = 1) =>
              \E i \in 1..Len(selector.levels) :
                  selector.levels[i] = stack'[1].meta.level]_vars

\* C15: exec_missing_levels returned after two passes, the node's head having
\* advanced since the call.
C15_Witness ==
    /\ missing.pc = "returned" /\ missing.passes = 2
    /\ head > missing.latest0
    /\ missing.dependents = 1

\* C16: in all-contracts mode the step that runs a block's transaction has first
\* registered exactly the contracts active in the block that the registry did not
\* hold, whether the transaction then commits or fails: every contract processed for
\* the block is in the registry, and no contract the registry held is registered
\* again or has its entry touched.
C16_RegisterBeforeTransaction ==
    [][(all_contracts /\ stack # <<>> /\ Top.pc = "tx" /\ stack' # stack) =>
          LET active == active_contracts(Top.meta)
          IN /\ call'.registered = active \ DOMAIN contracts
             /\ DOMAIN contracts' = DOMAIN contracts \cup active
             /\ process_contracts(contracts', all_contracts, Top.meta)
                    \subseteq DOMAIN contracts'
             /\ \A c \in DOMAIN contracts : contracts'[c] = contracts[c]
             /\ \A c \in call'.registered : contracts'[c] = get_origination(db, c)]_vars

\* C16: a block in which a registered contract is active was ingested, and nothing
\* was registered for it.
C16_Witness ==
    /\ all_contracts /\ stack = <<>> /\ ret.kind = "ok"
    /\ active_contracts(call.block) # {}
    /\ active_contracts(call.block) \subseteq DOMAIN contracts
    /\ call.registered = {}

\* The step changes level_floor or the origination floor of a registered contract
FloorsChange ==
    \/ level_floor' # level_floor
    \/ \E c \in DOMAIN contracts : contracts'[c] # contracts[c]

\* The least origination floor of the registry after the step, an unknown floor
\* counting as 0
MinFloorAfter == MinOf({UnwrapOr(contracts'[c], 0) : c \in DOMAIN contracts'})

\* The floors change only in the step that follows the commit of a block, and then
\* for the contracts whose origination the block holds, to the block's level
FloorsAfterCommit ==
    /\ FloorsChange =>
           /\ stack # <<>> /\ Top.pc = "post" /\ Top.meta \in db.levels
           /\ \A c \in DOMAIN contracts :
                  contracts'[c] # contracts[c] =>
                      /\ has_contract_origination(Top.meta, c)
                      /\ contracts'[c] = Top.meta.level
    /\ (stack # <<>> /\ Top.pc = "post" /\ stack' # stack) =>
           \A c \in DOMAIN contracts :
               IF has_contract_origination(Top.meta, c)
               THEN contracts'[c] = Top.meta.level
               ELSE contracts'[c] = contracts[c]

\* A block holding the origination of a registered contract has committed, and
\* the step that follows is taken
OriginationCommitted ==
    /\ stack # <<>> /\ Top.pc = "post" /\ stack' # stack
    /\ \E c \in DOMAIN contracts : has_contract_origination(Top.meta, c)

\* C17 as claimed: the floors change only after the commit of a block holding an
\* origination, and level_floor is then the least origination floor, in any mode.
C17_AsClaimed ==
    [][/\ FloorsAfterCommit
       /\ OriginationCommitted => level_floor' = MinFloorAfter]_vars

\* C17, amended: the floors change only after the commit of a block holding an
\* origination, the contract's floor becoming the block's level; outside
\* all-contracts mode level_floor is then the least origination floor, in
\* all-contracts mode level_floor is left as it is; a failing transaction changes
\* neither.
C17_FloorsAfterCommit ==
    [][/\ FloorsAfterCommit
       /\ OriginationCommitted =>
              level_floor' = IF all_contracts THEN level_floor ELSE MinFloorAfter
       /\ (stack # <<>> /\ Top.pc = "tx" /\ stack' = <<>>) => ~FloorsChange]_vars

\* C17: outside all-contracts mode the block holding the contract's origination was
\* ingested, and both floors are its level.
C17_Witness ==
    /\ ~all_contracts /\ stack = <<>> /\ ret.kind = "ok"
    /\ \A c \in Contracts : has_contract_origination(call.block, c)
    /\ \A c \in DOMAIN contracts : contracts[c] = call.block.level
    /\ level_floor = call.block.level /\ level_floor > 0

\* The requests for a name the finished build served, in traversal order
Requests == built.res.b.requests
BuiltOk == built.done /\ ~built.res.err
\* The scope a name is counted in: all the tables of the builder, the columns of
\* one table
ScopeOf(r) == IF r.kind = "table" THEN <<>> ELSE r.scope
SameScope(r, q) == r.kind = q.kind /\ ScopeOf(r) = ScopeOf(q)
\* The number of requests before the i-th for the same name in the same scope
EarlierSame(i) ==
    Cardinality({j \in 1..(i - 1) :
        SameScope(Requests[j], Requests[i]) /\ Requests[j].name = Requests[i].name})
\* The full name of the table the i-th request opened
FullTableName(i) == Append(Requests[i].scope, Requests[i].res)

\* C18: the full names of the tables a build emits are pairwise distinct.
C18_TableNamesUnique ==
    BuiltOk =>
        \A i \in 1..Len(Requests) : \A j \in 1..Len(Requests) :
            (i # j /\ Requests[i].kind = "table" /\ Requests[j].kind = "table")
                => FullTableName(i) # FullTableName(j)

\* C19: within each table the column names of the leaves and tag entries a build
\* emits are pairwise distinct.
C19_ColumnNamesUnique ==
    BuiltOk =>
        \A i \in 1..Len(Requests) : \A j \in 1..Len(Requests) :
            (i # j /\ Requests[i].kind = "column" /\ Requests[j].kind = "column"
                 /\ Requests[i].scope = Requests[j].scope)
                => Requests[i].res # Requests[j].res

OrOfUnits == Complex(NoName, "or", <<Unit0, Unit0>>)

Ast == built.res.ast
\* The table a table was started in
ParentOf(t) == SubSeq(t, 1, Len(t) - 1)
Ddl(t) == create_table_definition(TableOf(Ast, t))

RECURSIVE EntriesWithin(_, _)
EntriesWithin(ast, within) ==
    CASE ast.node = "Leaf" -> {[entry |-> ast.rel_entry, within |-> within]}
      [] ast.node = "Pair" ->
            EntriesWithin(ast.left_ast, within) \cup EntriesWithin(ast.right_ast, within)
      [] ast.node = "Option" -> EntriesWithin(ast.elem_ast, within)
      [] ast.node = "List" -> EntriesWithin(ast.elems_ast, within \cup {ast.table})
      [] ast.node \in {"Map", "BigMap"} ->
            EntriesWithin(ast.key_ast, within \cup {ast.table})
            \cup EntriesWithin(ast.value_ast, within \cup {ast.table})
      [] ast.node = "OrEnumeration" ->
            {[entry |-> ast.or_unfold[i], within |-> within] : i \in 1..Len(ast.or_unfold)}
            \cup EntriesWithin(ast.left_ast, within \cup ({ast.left_table} \ {NoTable}))
            \cup EntriesWithin(ast.right_ast, within \cup ({ast.right_table} \ {NoTable}))

\* C22: the table_name of every leaf and every tag entry of a built RelationalAST
\* is storage, or the table of a List, Map or BigMap node around it, or the
\* left_table or right_table of an OrEnumeration node that has it in that arm.
C22_LeafTables ==
    BuiltOk =>
        \A x \in EntriesWithin(Ast, {ContextInit.table_name}) :
            x.entry.table_name \in x.within

\* A leaf in the table of an arm, and a leaf in the table of a map
C22_Witness ==
    /\ BuiltOk
    /\ Ast.node = "Pair"
    /\ \E x \in EntriesWithin(Ast, {ContextInit.table_name}) :
          /\ Len(x.entry.table_name) = 2
          /\ x.entry.column_type # "string"
          /\ Ast.right_ast.node = "OrEnumeration"
          /\ x.entry.table_name = Ast.right_ast.right_table
    /\ \E x \in EntriesWithin(Ast, {ContextInit.table_name}) :
          /\ Ast.left_ast.node = "List"
          /\ x.entry.table_name = Ast.left_ast.table

\* ------------------------------------------------------------------ C23
\* The nodes of a storage type, each with the RelationalAST built for it, the
\* table it was built in and whether it is an arm of an or-enumeration
RECURSIVE Sites(_, _, _, _)
Sites(ele, ast, table, arm) ==
    {[ele |-> ele, ast |-> ast, table |-> table, arm |-> arm]}
    \cup
    CASE ele.ty = "pair" ->
            Sites(ele.args[1], ast.left_ast, table, FALSE)
            \cup Sites(ele.args[2], ast.right_ast, table, FALSE)
      [] ele.ty = "list" -> Sites(ele.args[1], ast.elems_ast, ast.table, FALSE)
      [] ele.ty \in {"map", "bigmap"} ->
            Sites(ele.args[1], ast.key_ast, ast.table, FALSE)
            \cup Sites(ele.args[2], ast.value_ast, ast.table, FALSE)
      [] ele.ty = "option" -> Sites(ele.args[1], ast.elem_ast, table, FALSE)
      [] ele.ty = "or" ->
            Sites(ele.args[1], ast.left_ast,
                  IF ast.left_table = NoTable THEN table ELSE ast.left_table, TRUE)
            \cup Sites(ele.args[2], ast.right_ast,
                       IF ast.right_table = NoTable THEN table ELSE ast.right_table, TRUE)
      [] OTHER -> {}
AllSites == Sites(type_ast, Ast, ContextInit.table_name, FALSE)
\* The or-enumerations that are not an arm of another
Enumerations == {x \in AllSites : x.ele.ty = "or" /\ ~x.arm}
UnitOnly(ele) == ele.args[1].ty = "unit" /\ ele.args[2].ty = "unit"
MintOrBurn == Or(NoName, Simple(<<"mint">>, "unit"), Simple(<<"burn">>, "unit"))

ArmsBuilt ==
    UNION {{[arm |-> x.ele.args[1], ast |-> x.ast.left_ast, table |-> x.table,
             side |-> x.ast.left_table],
            [arm |-> x.ele.args[2], ast |-> x.ast.right_ast, table |-> x.table,
             side |-> x.ast.right_table]} : x \in {y \in AllSites : y.ele.ty = "or"}}
\* The name an arm's table is named after
ArmTableName(arm) ==
    IF arm.name # NoName THEN arm.name
    ELSE IF arm.ty \in SimpleTypes THEN <<arm.ty>>
    ELSE <<"noname">>
\* The requests that opened a table
TableRequests(t) ==
    {i \in 1..Len(Requests) : Requests[i].kind = "table" /\ FullTableName(i) = t}
UnitOrNat == Or(NoName, Unit0, Nat0)

\* C24: a Unit arm of an or-enumeration is a leaf of the table the enumeration is
\* built in and its left_table or right_table is empty; an arm that is neither
\* Unit nor an or-enumeration has as its left_table or right_table a child table of
\* the table the enumeration is built in, opened for the arm and named after the
\* arm's annotation, else the name of its simple type, else noname (with the number
\* start_table appends when the name was requested before), and what is built for
\* the arm is built in that table. or unit nat at the root has right_table
\* storage.nat with the column nat.
C24_Arms ==
    BuiltOk =>
        /\ \A a \in ArmsBuilt :
             /\ a.arm.ty = "unit" =>
                   /\ a.side = NoTable
                   /\ a.ast.node = "Leaf"
                   /\ a.ast.rel_entry.table_name = a.table
             /\ a.arm.ty \notin {"unit", "or"} =>
                   /\ a.side # NoTable
                   /\ ParentOf(a.side) = a.table
                   /\ Cardinality(TableRequests(a.side)) = 1
                   /\ \E i \in TableRequests(a.side) :
                         /\ Requests[i].name = ArmTableName(a.arm)
                         /\ Requests[i].res \in
                               {counted_name(ArmTableName(a.arm), c) : c \in 0..9}
                   /\ \A e \in {x.entry : x \in EntriesWithin(a.ast, {})} :
                         SubSeq(e.table_name, 1, Len(a.side)) = a.side
        /\ type_ast = UnitOrNat =>
             /\ Ast.left_table = NoTable
             /\ Ast.right_table = <<<<"storage">>, <<"nat">>>>
             /\ Ast.right_ast = Leaf([table_name |-> <<<<"storage">>, <<"nat">>>>,
                                       column_name |-> <<"nat">>, column_type |-> "nat",
                                       value |-> NoName, is_index |-> FALSE])

\* An arm's table in the table of a list, and an arm's table named nat_1 after the
\* table nat
C24_Witness ==
    /\ BuiltOk
    /\ \E a \in ArmsBuilt :
          /\ a.side # NoTable
          /\ \/ Len(a.table) = 2
             \/ a.side = <<<<"storage">>, <<"nat", "1">>>>

\* ------------------------------------------------------------------ C25
\* The names the columns of a build were requested under, before prefixing and
\* suffixing, in the order of the requests
ColumnRequests == SelectSeq(Requests, LAMBDA r : r.kind = "column")
ColumnLocals == [i \in 1..Len(ColumnRequests) |-> ColumnRequests[i].local]
\* The annotation of a leaf, else the name of its simple type
OwnName(ele) == IF ele.name # NoName THEN ele.name ELSE <<ele.ty>>
\* The annotation of an or-enumeration, else noname
TagName(ele) == IF ele.name # NoName THEN ele.name ELSE <<"noname">>
RECURSIVE HasOr(_)
HasOr(ele) == ele.ty = "or" \/ \E i \in 1..Len(ele.args) : HasOr(ele.args[i])
RECURSIVE HasOption(_)
HasOption(ele) == ele.ty = "option" \/ \E i \in 1..Len(ele.args) : HasOption(ele.args[i])

\* Every leaf under its own annotation, else the name of its type
RECURSIVE OwnNames(_)
OwnNames(ele) ==
    IF ele.args = <<>> THEN <<OwnName(ele)>>
    ELSE IF Len(ele.args) = 1 THEN OwnNames(ele.args[1])
    ELSE OwnNames(ele.args[1]) \o OwnNames(ele.args[2])

RECURSIVE PreferredNames(_, _)
RECURSIVE ArmNames(_, _, _, _)
PreferredNames(ele, ast) ==
    CASE ele.ty = "pair" ->
            PreferredNames(ele.args[1], ast.left_ast)
            \o PreferredNames(ele.args[2], ast.right_ast)
      [] ele.ty = "list" -> PreferredNames(ele.args[1], ast.elems_ast)
      [] ele.ty \in {"map", "bigmap"} ->
            PreferredNames(ele.args[1], ast.key_ast)
            \o PreferredNames(ele.args[2], ast.value_ast)
      [] ele.ty = "option" ->
            PreferredNames(IF ele.args[1].name # NoName THEN ele.args[1]
                           ELSE [ele.args[1] EXCEPT !.name = ele.name], ast.elem_ast)
      [] ele.ty = "or" ->
            <<TagName(ele)>>
            \o ArmNames(ele.args[1], ast.left_ast, ast.left_table, TagName(ele))
            \o ArmNames(ele.args[2], ast.right_ast, ast.right_table, TagName(ele))
      [] OTHER -> <<OwnName(ele)>>
ArmNames(arm, ast, side, tag) ==
    CASE arm.ty = "or" ->
            ArmNames(arm.args[1], ast.left_ast, ast.left_table, tag)
            \o ArmNames(arm.args[2], ast.right_ast, ast.right_table, tag)
      [] arm.ty = "unit" -> <<tag>>
      [] OTHER -> PreferredNames([arm EXCEPT !.name = side[Len(side)]], ast)

ReservedNames == {<<"level">>, <<"level", "timestamp">>}
\* The name of a column request after prefixing: the prefix, "_" unless the prefix
\* is empty, the local name
Prefixed(r) == r.prefix \o r.local

\* C26: no column a build emits is named level or level_timestamp; a column whose
\* name after prefixing is level or level_timestamp is emitted as that name with
\* a leading ".", after idx_ when it is an index column and before the number
\* appended on a collision.
C26_ReservedNames ==
    built.done =>
        \A i \in 1..Len(ColumnRequests) :
            LET r == ColumnRequests[i]
            IN /\ r.res \notin ReservedNames
               /\ Prefixed(r) \in ReservedNames =>
                     \E c \in 0..9 :
                        r.res = counted_name((IF r.is_index THEN <<"idx">> ELSE <<>>)
                                                \o <<".">> \o Prefixed(r), c)
               /\ Prefixed(r) \notin ReservedNames =>
                     \A j \in 1..Len(r.res) : r.res[j] # "."

\* level_timestamp made of the prefix level and the name timestamp
C26_Witness ==
    /\ built.done
    /\ \E i \in 1..Len(ColumnRequests) :
          /\ ColumnRequests[i].prefix = <<"level">>
          /\ ColumnRequests[i].local = <<"timestamp">>
          /\ ColumnRequests[i].res = <<".", "level", "timestamp">>

\* ------------------------------------------------------------------ C27
\* A storage type of pairs and leaves only
RECURSIVE PairsOnly(_)
PairsOnly(ele) ==
    \/ ele.ty \in SimpleTypes
    \/ ele.ty = "pair" /\ PairsOnly(ele.args[1]) /\ PairsOnly(ele.args[2])
\* The names of the leaves, each after the annotations of all the pairs around it,
\* outermost first
RECURSIVE AccumulatedNames(_, _)
AccumulatedNames(ele, prefix) ==
    IF ele.ty = "pair"
    THEN AccumulatedNames(ele.args[1], prefix \o ele.name)
         \o AccumulatedNames(ele.args[2], prefix \o ele.name)
    ELSE <<prefix \o OwnName(ele)>>

\* C27: in a storage type of nested pairs the name of a leaf's column after
\* prefixing is the annotations of all the pairs around it, outermost first,
\* followed by the leaf's own name, joined by "_"; without an annotated pair
\* around it, it is the leaf's own name.
C27_PrefixAccumulation ==
    (BuiltOk /\ PairsOnly(type_ast)) =>
        [i \in 1..Len(ColumnRequests) |-> Prefixed(ColumnRequests[i])]
            = AccumulatedNames(type_ast, <<>>)

\* ------------------------------------------------------------------ C28
\* The entries of a RelationalAST, each with whether it lies in the key of a Map
\* or BigMap or in the elements of a unique List, rather than in a value or in
\* the elements of another List
RECURSIVE IndexExpected(_, _)
IndexExpected(ast, expected) ==
    CASE ast.node = "Leaf" -> {[entry |-> ast.rel_entry, expected |-> expected]}
      [] ast.node = "Pair" ->
            IndexExpected(ast.left_ast, expected) \cup IndexExpected(ast.right_ast, expected)
      [] ast.node = "Option" -> IndexExpected(ast.elem_ast, expected)
      [] ast.node = "List" -> IndexExpected(ast.elems_ast, ast.elems_unique)
      [] ast.node \in {"Map", "BigMap"} ->
            IndexExpected(ast.key_ast, TRUE) \cup IndexExpected(ast.value_ast, FALSE)
      [] ast.node = "OrEnumeration" ->
            {[entry |-> ast.or_unfold[i], expected |-> expected] :
                i \in 1..Len(ast.or_unfold)}
            \cup IndexExpected(ast.left_ast, expected)
            \cup IndexExpected(ast.right_ast, expected)

\* C28: in a built RelationalAST every leaf and tag entry of the key of a Map or
\* BigMap and of the elements of a unique List has is_index = TRUE, whatever the
\* shape of the key; the leaves of values, of the elements of other lists and of
\* the rest have is_index = FALSE.
C28_IndexMarking ==
    BuiltOk =>
        \A x \in IndexExpected(Ast, FALSE) : x.entry.is_index = x.expected

\* ------------------------------------------------------------------ C29
\* The types a build indexes: the keys of the maps and big maps and the elements
\* of the sets of a storage type
RECURSIVE IndexedTypes(_)
IndexedTypes(ele) ==
    (IF ele.ty \in {"map", "bigmap"} \/ (ele.ty = "list" /\ ele.unique)
     THEN {ele.args[1]} ELSE {})
    \cup UNION {IndexedTypes(ele.args[i]) : i \in 1..Len(ele.args)}
\* A type that is, or holds inside pairs or or-enumerations, an option, list, map
\* or big map
RECURSIVE Unindexable(_)
Unindexable(ele) ==
    \/ ele.ty \in {"option", "list", "map", "bigmap"}
    \/ /\ ele.ty \in {"pair", "or"}
       /\ \E i \in 1..Len(ele.args) : Unindexable(ele.args[i])

\* C29: a build fails exactly when one of the types it indexes is, or holds inside
\* pairs or or-enumerations, an option, list, map or big map.
C29_Unindexable ==
    built.done =>
        (built.res.err <=> \E k \in IndexedTypes(type_ast) : Unindexable(k))

\* ------------------------------------------------------------------ C30
\* The executor operation has returned Ok
Returned == phase = "done"

\* C30: whenever a stored level was reprocessed because of a hash mismatch, the
\* derived tables are repopulated before the operation that did it returns or begins
\* a further pass: no pass is begun, and no operation returns, while the derived
\* tables are stale.
C30_RepopulateAfterRollback == ~derived.missed /\ (Returned => ~derived.stale)

\* A direct exec_level(l, true, false) reprocessed a stored level, and
\* exec_new_contracts_historically has returned
C30_Rollback == Returned /\ hist.pc = "returned" /\ hist.reprocessed

\* ------------------------------------------------------------------ C31
\* The minimum origination floor over the registry, an unknown floor counting as 0
RegistryFloor ==
    IF DOMAIN contracts = {} THEN 0
    ELSE MinOf({UnwrapOr(contracts[c], 0) : c \in DOMAIN contracts})

\* C31: outside all-contracts mode level_floor is, in every reachable state, the
\* minimum origination floor over the tracked contracts (an unknown floor counts
\* as 0).
C31_LevelFloorSound == ~all_contracts => level_floor = RegistryFloor

\* A contract is registered with the origination level the DB records for it
C31_Registered ==
    /\ ~all_contracts
    /\ \E c \in DOMAIN contracts : contracts[c] # None
    /\ level_floor = 0

\* ------------------------------------------------------------------ C32
\* How often the level l occurs in a sequence of levels
Count(q, l) == Cardinality({i \in 1..Len(q) : q[i] = l})

\* Where a sent level can be: in levels_in, with a worker, in blocks_out, with
\* exec_for_block, or in processed_levels
Places(l) ==
    Count(levels_in, l)
    + Cardinality({w \in DOMAIN workers : workers[w].st = "send" /\ workers[w].block.level = l})
    + Cardinality({i \in 1..Len(blocks_out) : blocks_out[i].level = l})
    + (IF stack # <<>> /\ stack[1].meta.level = l THEN 1 ELSE 0)
    + Count(processed_levels, l)

\* C32: while exec_parallel runs without an error every level the selector sent is
\* in exactly one place (no level is lost, none is duplicated), and once it has
\* returned processed_levels is a permutation of the levels sent.
C32_ExactlyOnce ==
    /\ phase = "par" => \A l \in Levels : Places(l) = Count(selector.sent, l)
    /\ phase = "done" =>
           /\ Len(processed_levels) = Len(selector.sent)
           /\ \A l \in Levels : Count(processed_levels, l) = Count(selector.sent, l)

\* exec_parallel has returned, and the workers delivered the levels in another order
\* than the selector sent them
C32_Witness ==
    /\ phase = "done"
    /\ Len(selector.sent) >= 3
    /\ processed_levels # selector.sent

\* ------------------------------------------------------------------ C33
\* C33: exec_for_block with cleanup_on_reorg terminates: the chain of nested
\* exec_level calls never comes back to a block that is still waiting on the call
\* stack (with the DB and the node's block as they were).
C33_CleanupTerminates == ~(call.cleanup /\ ret.kind = "overflow")

\* A call with cleanup_on_reorg reprocesses a stored neighbour
C33_Nested == call.cleanup /\ Len(stack) = 2 /\ stack[2].pc = "check"

\* ------------------------------------------------------------------ C34
\* C34: with every fetch and every transaction succeeding, a started exec_parallel
\* returns: the selector finishes, the workers end, blocks_out is drained and the
\* threads are joined.
C34_ParallelReturns == (phase = "par") ~> (phase = "done")

\* exec_parallel has returned after more levels than both channels hold together
\* were sent
C34_Witness ==
    /\ phase = "done"
    /\ Len(selector.sent) > 2 * num_getters
    /\ Len(processed_levels) = Len(selector.sent)

\* ------------------------------------------------------------------ C35
\* A stored level whose hash is not the hash of the node's block of that level
Stale(r) == r.hash # level_json(r.level).hash
SomeStale == \E r \in db.levels : Stale(r)

\* The DB head is the chain head, with its hash, and the stored levels are chained
Converged ==
    /\ phase = "cont"
    /\ \E r \in get_head(db) : r.level = head /\ r.hash = node_head.hash
    /\ ChainOK(db)
    /\ ~SomeStale

\* No further reorganisation follows
Settled == nver = MaxReorgs

\* C35 as claimed: once the chain was reorganised below the DB head and stops
\* changing, exec_continuous reaches, and stays in, a state with the DB head at the
\* chain head with its hash and the stored levels chained, without an error.
C35_AsClaimed ==
    [](phase = "cont" /\ Settled /\ SomeStale => <>[]Converged)

\* A stored level the reorganisation left alone is there to continue from, or
\* exec_continuous runs in all-contracts mode; and the chain is not behind the DB
Recoverable ==
    /\ all_contracts \/ \E r \in db.levels : ~Stale(r)
    /\ \A r \in db.levels : r.level <= head

\* C35: the same, when the chain head is not below the DB head, and a stored level
\* below the reorganisation is left or exec_continuous runs in all-contracts mode.
C35_Converges ==
    [](phase = "cont" /\ Settled /\ SomeStale /\ Recoverable => <>[]Converged)

\* Two stale levels were deleted one after the other, and the DB head is the chain
\* head again
C35_Witness ==
    /\ Converged
    /\ nver > 0
    /\ cont.repopulated >= 2
    /\ Cardinality(db.levels) >= 2


\* ------------------------------------------------------------------ C36
\* The levels the DB reports as missing now
MissingNow == get_missing_levels(db, DOMAIN contracts, latest_level(missing))
\* A pass of exec_missing_levels ended and the loop is about to ask the DB again
PassEnded == phase = "missing" /\ missing.pc = "loop" /\ missing.passes > 0

\* C36: with the node's head unmoved and every fetch and transaction succeeding,
\* every pass of exec_missing_levels leaves fewer levels missing than were reported
\* to it, so the loop ends.
C36_MissingShrinks ==
    PassEnded => MissingNow \subseteq missing.reported /\ MissingNow # missing.reported

\* C36: a pass ended in which the selector dropped every reported level, each being
\* below level_floor, and the DB reports the same levels again
C36_Stuck ==
    /\ PassEnded /\ MissingNow = missing.reported /\ MissingNow # {}
    /\ selector.sent = <<>>
    /\ \A l \in MissingNow : l < level_floor

\* ------------------------------------------------------------------ C37
\* The ids the rows and tx contexts of DB d hold
IdsOf(d) == {r.id : r \in d.rows} \cup {r.tx : r \in d.rows} \cup {t.id : t \in d.txs}
\* The rows and tx contexts of d that DB e does not hold
AddedIds(e, d) == IdsOf([d EXCEPT !.rows = @ \ e.rows, !.txs = @ \ e.txs])
\* This step is the commit of a block's transaction
Commits == stack # <<>> /\ Top.pc = "tx" /\ stack' # <<>> /\ stack'[Len(stack')].pc = "post"
\* No two rows, and no two tx contexts, share an id
IdsDistinct(d) ==
    /\ \A r, u \in d.rows : r.id = u.id => r = u
    /\ \A t, u \in d.txs : t.id = u.id => t = u

\* C37: max_id changes only in the commit of a block's transaction and then only
\* upwards; every id of a committed block is at least the max_id its transaction
\* found and below the max_id it leaves, so every stored id is below max_id and the
\* rows (and tx contexts) of different blocks, a reprocessed level included, never
\* share an id.
C37_RowIds ==
    [][/\ db'.max_id # db.max_id => Commits /\ db'.max_id > db.max_id
       /\ \A i \in AddedIds(db, db') : db.max_id <= i /\ i < db'.max_id
       /\ \A i \in IdsOf(db') : i < db'.max_id
       /\ IdsDistinct(db')]_vars

\* C37: a level was processed again after a failed transaction; its new rows took
\* ids above those of the rows of the other stored level
C37_Witness ==
    /\ stack = <<>> /\ ret.kind = "ok"
    /\ budget.fails < MaxFail
    /\ db.max_id > call.db0.max_id /\ call.db0.max_id > 0
    /\ \E r, u \in db.rows :
           /\ r.level = call.block.level /\ u.level # r.level
           /\ r.id >= call.db0.max_id /\ u.id < call.db0.max_id

\* ------------------------------------------------------------------ C38
\* exec_continuous is at the top of its loop and the DB holds no level
EmptyAtLoop == phase = "cont" /\ cont.pc = "loop" /\ stack = <<>> /\ db.levels = {}
\* exec_continuous takes a step of its own
ContMoves == cont' # cont

\* C38: at the top of its loop with no level in the DB, exec_continuous outside
\* all-contracts mode fails and leaves the DB empty, and in all-contracts mode calls
\* exec_level(chain_head.level, false, true); when that call succeeds the DB holds
\* the chain head's level and no other and the loop goes on, and when it fails the
\* error is returned.
C38_EmptyDB ==
    [][/\ EmptyAtLoop /\ ContMoves =>
              /\ db' = db
              /\ IF all_contracts
                 THEN /\ phase' = "cont" /\ cont'.pc = "first"
                      /\ stack' = <<Frame(node_head, FALSE)>>
                 ELSE /\ phase' = "failed" /\ stack' = <<>>
       /\ phase = "cont" /\ cont.pc = "first" /\ ContMoves =>
              IF ret.kind = "ok"
              THEN /\ phase' = "cont" /\ cont'.pc = "loop"
                   /\ {r.level : r \in db'.levels} = {cont.chain_head.level}
              ELSE phase' = "failed" /\ db' = db]_vars

\* C38: in all-contracts mode the chain head was ingested into the empty DB and the
\* loop is at its top again
C38_Witness ==
    /\ phase = "cont" /\ all_contracts /\ cont.pc = "loop" /\ stack = <<>>
    /\ cont.db_head = 0 /\ cont.chain_head # NoBlock
    /\ {r.level : r \in db.levels} = {cont.chain_head.level}

\* ------------------------------------------------------------------ C39
\* The tables of a built schema: the root table and the tables started in it
TablesOf(ast) == EmittedTables(ast) \cup {ContextInit.table_name}

\* C39: create_table_definition returns a definition, without failing, for every
\* table of a schema the builder built, the root table storage with no column
\* included.
C39_DefinitionReturned == BuiltOk => \A t \in TablesOf(Ast) : ~Ddl(t).panic

\* C39: a schema was built whose root table has no column (the storage is a map or
\* a list), so that create_columns gives no entry and columns[0] is out of bounds
C39_RootWithoutColumns ==
    /\ BuiltOk
    /\ TableOf(Ast, ContextInit.table_name).columns = <<>>
    /\ create_columns(TableOf(Ast, ContextInit.table_name)) = <<>>
    /\ Ddl(ContextInit.table_name).panic
    /\ \A t \in EmittedTables(Ast) : ~Ddl(t).panic
====
